---- MODULE Spec2Model ----
(***************************************************************************)
(* Kimten: a tool-using agent with short-term FIFO memory.                 *)
(*                                                                         *)
(* The module models                                                       *)
(*   - the memory store (lib/memory.js: createMemory add / list / clear),  *)
(*   - the turn pipeline of one Kimten instance (lib/kimten.js: play,      *)
(*     playOnce, forget) with its promise chain playQueue,                 *)
(*   - the pure helpers playOnce calls (play-options.js, attachments.js,   *)
(*     prompt.js).                                                         *)
(*                                                                         *)
(* JavaScript values are records [type |-> ..., v |-> ...]; texts are      *)
(* strings, built with \o and taken apart with SubSeq.                     *)
(***************************************************************************)
EXTENDS Integers, Sequences, FiniteSets, TLC

VARIABLES
  limit,      \* createMemory(limit): capacity of the store
  history,    \* createMemory: const history = []
  listed,     \* the value returned by the latest list()
  memlog,     \* every add / clear performed on the store, in program order
  box,        \* Kimten config: the instance's output schema (or undefined)
  calls,      \* the play() calls submitted so far, in submission order
  playQueue,  \* Kimten: let playQueue (0: the initial resolved promise,
              \* i: the promise run_i.catch(() => {}) of call i)
  peer,       \* a second Kimten instance: the record of its closure variables
  given,      \* the arguments of the calls of a function studied on its own
  returned    \* what those calls returned (<<>> before the calls)

vars == <<limit, history, listed, memlog, box, calls, playQueue, peer, given, returned>>

----------------------------------------------------------------------------
(* Bounds of the model *)

MaxLimit == 3      \* capacities 1..MaxLimit of a stand-alone store
MaxOps == 5        \* add / clear operations on a stand-alone store
MaxCalls == 2      \* play() calls submitted to one instance

(* lib/memory.js *)
MEMORY_LIMIT == 10

----------------------------------------------------------------------------
(* Generic helpers *)

Min(a, b) == IF a <= b THEN a ELSE b

\* the last n elements of s
LastN(s, n) == SubSeq(s, Len(s) - n + 1, Len(s))

(* JavaScript values: [type |-> typeof-like tag, v |-> payload] *)
Undefined == [type |-> "undefined", v |-> ""]
Null == [type |-> "null", v |-> ""]
Str(s) == [type |-> "string", v |-> s]
Bool(b) == [type |-> "boolean", v |-> b]
\* a finite number, kept in tenths (5 is 0.5, 10 is 1)
Num(tenths) == [type |-> "number", v |-> tenths, special |-> "finite"]
NaN == [type |-> "number", v |-> 0, special |-> "NaN"]
\* a raw byte buffer (Buffer / Uint8Array) holding the bytes named by tag
Bytes(tag) == [type |-> "bytes", v |-> tag]
\* an array literal
Arr(items) == [type |-> "array", v |-> items]
\* an object literal: entries are <<key, value>> pairs in insertion order
Obj(entries) == [type |-> "object", proto |-> "Object", v |-> entries]
\* an instance of a class (its prototype is not Object.prototype)
Instance(entries) == [type |-> "object", proto |-> "Class", v |-> entries]

IsNullish(x) == x.type \in {"undefined", "null"}
IsString(x) == x.type = "string"

\* Object.keys(obj)
Keys(obj) == [p \in 1..Len(obj.v) |-> obj.v[p][1]]
HasKey(obj, key) == \E p \in 1..Len(obj.v) : obj.v[p][1] = key

\* { ...obj, key: value }
Set(obj, key, value) ==
  IF HasKey(obj, key)
  THEN [obj EXCEPT !.v = [p \in 1..Len(obj.v) |->
                            IF obj.v[p][1] = key THEN <<key, value>> ELSE obj.v[p]]]
  ELSE [obj EXCEPT !.v = Append(obj.v, <<key, value>>)]

\* obj[key] (undefined when absent)
Get(obj, key) ==
  IF HasKey(obj, key)
  THEN obj.v[CHOOSE p \in 1..Len(obj.v) : obj.v[p][1] = key][2]
  ELSE Undefined

(* String primitives *)
Upper == <<"A","B","C","D","E","F","G","H","I","J","K","L","M",
           "N","O","P","Q","R","S","T","U","V","W","X","Y","Z">>
Lowers == <<"a","b","c","d","e","f","g","h","i","j","k","l","m",
            "n","o","p","q","r","s","t","u","v","w","x","y","z">>
Digits == <<"0","1","2","3","4","5","6","7","8","9">>
Range(f) == {f[x] : x \in DOMAIN f}

CharAt(s, p) == SubSeq(s, p, p)

LowerChar(c) ==
  IF c \in Range(Upper)
  THEN Lowers[CHOOSE p \in 1..26 : Upper[p] = c]
  ELSE c

\* String.prototype.toLowerCase
RECURSIVE toLowerCase(_)
toLowerCase(s) ==
  IF Len(s) = 0 THEN ""
  ELSE LowerChar(CharAt(s, 1)) \o toLowerCase(SubSeq(s, 2, Len(s)))

\* String.prototype.includes
includes(s, sub) ==
  \E p \in 1..(Len(s) - Len(sub) + 1) : SubSeq(s, p, p + Len(sub) - 1) = sub

\* String.prototype.startsWith
startsWith(s, prefix) ==
  Len(s) >= Len(prefix) /\ SubSeq(s, 1, Len(prefix)) = prefix

IsSpace(c) == c \in {" ", "\t", "\n", "\r"}

\* String.prototype.trim
trim(s) ==
  LET keep == {p \in 1..Len(s) : ~IsSpace(CharAt(s, p))}
  IN IF keep = {} THEN ""
     ELSE SubSeq(s, CHOOSE p \in keep : \A q \in keep : p <= q,
                    CHOOSE p \in keep : \A q \in keep : q <= p)

----------------------------------------------------------------------------
(* lib/memory.js: createMemory *)

\* a stored message { role, content }
Message(role, content) == [role |-> role, content |-> content]

\* history.shift()
shift(h) == Tail(h)

\* add(message): history.push(message); if (history.length > limit) shift()
add_NoEvict(h, lim, message) == Append(h, message)
add_EvictNewest(h, lim, message) ==
  LET pushed == Append(h, message)
  IN IF Len(pushed) > lim THEN SubSeq(pushed, 1, Len(pushed) - 1) ELSE pushed
add(h, lim, message) ==
  LET pushed == Append(h, message)
  IN IF Len(pushed) > lim THEN shift(pushed) ELSE pushed

\* list(): history.slice()
list(h) == SubSeq(h, 1, Len(h))

\* clear(): history.length = 0
clear_KeepNewest(h) == IF h = <<>> THEN h ELSE <<h[Len(h)]>>
clear(h) == SubSeq(h, 1, 0)

\* entries of memlog
LogAdd(message, by) == [op |-> "add", message |-> message, by |-> by]
LogClear == [op |-> "clear", message |-> Message("none", Undefined), by |-> 0]

\* the messages passed to add(), in order
RECURSIVE Inserted(_)
Inserted(log) ==
  IF log = <<>> THEN <<>>
  ELSE LET rest == Inserted(SubSeq(log, 1, Len(log) - 1))
           last == log[Len(log)]
       IN IF last.op = "add" THEN Append(rest, last.message) ELSE rest

\* the part of the log after the last clear()
RECURSIVE SinceClear(_)
SinceClear(log) ==
  IF log = <<>> THEN <<>>
  ELSE LET last == log[Len(log)]
       IN IF last.op = "clear" THEN <<>>
          ELSE Append(SinceClear(SubSeq(log, 1, Len(log) - 1)), last)

NoClear(log) == \A p \in 1..Len(log) : log[p].op # "clear"

----------------------------------------------------------------------------
(* lib/prompt.js: serializeContext *)

CONTEXT_CHAR_LIMIT == 4000
REDACTED == "[REDACTED]"
TRUNCATED_SUFFIX == "\n...(truncated)"

\* lib/guards.js isPlainObject (same body as the copy in lib/tools.js)
isPlainObject(value) ==
  /\ value.type = "object"
  /\ value.proto \in {"Object", "null"}

\* the test of the replacer passed to JSON.stringify
IsSensitiveKey_CaseSensitive(key) ==
  \/ includes(key, "password")
  \/ includes(key, "token")
  \/ includes(key, "secret")
  \/ includes(key, "apikey")
  \/ includes(key, "api_key")
IsSensitiveKey(key) ==
  LET lowered == toLowerCase(key)
  IN \/ includes(lowered, "password")
     \/ includes(lowered, "token")
     \/ includes(lowered, "secret")
     \/ includes(lowered, "apikey")
     \/ includes(lowered, "api_key")

\* the replacer: (key, value) => sensitive ? '[REDACTED]' : value
replacer_TypedMarker(key, value) ==
  IF IsSensitiveKey(key) THEN Str("[REDACTED " \o value.type \o "]") ELSE value
replacer(key, value) == IF IsSensitiveKey(key) THEN Str(REDACTED) ELSE value

\* the indentation JSON.stringify(_, _, 2) writes at a nesting depth
RECURSIVE Indent(_)
Indent(depth) == IF depth = 0 THEN "" ELSE "  " \o Indent(depth - 1)

\* JSON.stringify of a string (the texts of the model need no escapes)
Quote(s) == "\"" \o s \o "\""

\* a number in tenths as JSON text
NumberText(tenths) ==
  LET whole == tenths \div 10
      frac == tenths % 10
  IN IF tenths < 0 THEN "-" \o ToString((0 - tenths) \div 10)
                        \o (IF (0 - tenths) % 10 = 0 THEN ""
                            ELSE "." \o ToString((0 - tenths) % 10))
     ELSE ToString(whole) \o (IF frac = 0 THEN "" ELSE "." \o ToString(frac))

Text(t) == [kind |-> "text", text |-> t]
NoText == [kind |-> "undefined", text |-> ""]
Throws(name) == [kind |-> "throw", text |-> name]

RECURSIVE JoinTexts(_, _)
JoinTexts(parts, sep) ==
  IF parts = <<>> THEN ""
  ELSE IF Len(parts) = 1 THEN parts[1]
  ELSE parts[1] \o sep \o JoinTexts(Tail(parts), sep)

RECURSIVE SelectSeqP(_, _)
\* the elements of s whose kind is not k
SelectSeqP(s, k) ==
  IF s = <<>> THEN <<>>
  ELSE IF s[1].kind = k THEN SelectSeqP(Tail(s), k)
  ELSE <<s[1]>> \o SelectSeqP(Tail(s), k)

\* what a call of a function that throws yields
Raises(name) == [type |-> "raise", v |-> name]

\* JSON.stringify calls value.toJSON(key) when the value is an object with a
\* function under toJSON; HasToJSON tells whether it does, ToJSON what the
\* call yields
HasToJSON(raw) ==
  /\ raw.type = "object"
  /\ \E p \in 1..Len(raw.v) : raw.v[p][1] = "toJSON" /\ raw.v[p][2].type = "function"
ToJSON(raw) ==
  raw.v[CHOOSE p \in 1..Len(raw.v) : raw.v[p][1] = "toJSON"][2].v

\* the first of the serializations that threw
FirstThrow(items) ==
  items[CHOOSE p \in 1..Len(items) :
          /\ items[p].kind = "throw"
          /\ \A q \in 1..(p - 1) : items[q].kind # "throw"]

RECURSIVE Stringify(_, _, _, _, _)
RECURSIVE StringifyHeld(_, _, _, _, _)
RECURSIVE StringifyValue(_, _, _, _)

\* JSON.stringify: the serialization of `value`, the property value the
\* replacer returned, at nesting depth `depth`
StringifyValue(value, depth, pretty, redact) ==
  LET open == IF pretty THEN "\n" ELSE ""
      pad(d) == IF pretty THEN Indent(d) ELSE ""
      colon == IF pretty THEN ": " ELSE ":"
      comma == IF pretty THEN ",\n" ELSE ","
  IN CASE value.type = "string" -> Text(Quote(value.v))
       [] value.type = "number" ->
            IF value.special = "finite" THEN Text(NumberText(value.v)) ELSE Text("null")
       [] value.type = "boolean" -> Text(IF value.v THEN "true" ELSE "false")
       [] value.type = "null" -> Text("null")
       [] value.type \in {"undefined", "function"} -> NoText
       [] value.type = "bigint" -> Throws("TypeError")
       [] value.type = "cycle" -> Throws("TypeError")
       [] value.type = "array" ->
            LET items == [p \in 1..Len(value.v) |->
                            Stringify(ToString(p - 1), value.v[p], depth + 1, pretty, redact)]
                texts == [p \in 1..Len(items) |->
                            pad(depth + 1) \o
                            (IF items[p].kind = "undefined" THEN "null" ELSE items[p].text)]
            IN IF \E p \in 1..Len(items) : items[p].kind = "throw"
               THEN Throws(FirstThrow(items).text)
               ELSE IF items = <<>> THEN Text("[]")
               ELSE Text("[" \o open \o JoinTexts(texts, comma) \o open \o pad(depth) \o "]")
       [] value.type = "object" ->
            LET props == [p \in 1..Len(value.v) |->
                            LET ser == Stringify(value.v[p][1], value.v[p][2],
                                                 depth + 1, pretty, redact)
                            IN [kind |-> ser.kind,
                                text |-> IF ser.kind = "throw" THEN ser.text
                                         ELSE pad(depth + 1) \o Quote(value.v[p][1])
                                                \o colon \o ser.text]]
                kept == SelectSeqP(props, "undefined")
                texts == [p \in 1..Len(kept) |-> kept[p].text]
            IN IF \E p \in 1..Len(props) : props[p].kind = "throw"
               THEN Throws(FirstThrow(props).text)
               ELSE IF kept = <<>> THEN Text("{}")
               ELSE Text("{" \o open \o JoinTexts(texts, comma) \o open \o pad(depth) \o "}")
       [] OTHER -> Text("{}")

\* JSON.stringify: the serialization of the property `key` holding `raw` at
\* nesting depth `depth`; `pretty` is the indent argument 2, `redact` the
\* replacer argument
StringifyHeld(key, held, depth, pretty, redact) ==
  IF held.type = "raise" THEN Throws(held.v)
  ELSE StringifyValue(IF redact THEN replacer(key, held) ELSE held, depth, pretty, redact)

Stringify(key, raw, depth, pretty, redact) ==
  StringifyHeld(key, IF HasToJSON(raw) THEN ToJSON(raw) ELSE raw, depth, pretty, redact)

\* JSON.stringify(value, replacer, 2)
Serialize(key, raw, depth) == Stringify(key, raw, depth, TRUE, TRUE)

\* JSON.stringify(value)
JsonStringify(value) == Stringify("", value, 0, FALSE, FALSE)

\* serializeContext after JSON.stringify: '' for no text, the text cut at
\* CONTEXT_CHAR_LIMIT characters
TruncateContext(redacted) ==
  IF redacted.kind = "throw" THEN redacted
  ELSE IF redacted.kind # "text" THEN Text("")
  ELSE IF Len(redacted.text) <= CONTEXT_CHAR_LIMIT THEN redacted
  ELSE Text(SubSeq(redacted.text, 1, CONTEXT_CHAR_LIMIT) \o TRUNCATED_SUFFIX)

\* serializeContext(context): the text, or the TypeError it throws
serializeContext(context) ==
  IF IsNullish(context) THEN Text("")
  ELSE IF ~isPlainObject(context) THEN Throws("TypeError")
  ELSE TruncateContext(Serialize("", context, 0))

----------------------------------------------------------------------------
(* JSON.parse of the texts JSON.stringify writes.  A parse is the record   *)
(* [v |-> the value read, next |-> the position after it]; a text that is   *)
(* not JSON gives the value [type |-> "raise"].                            *)

Parsed(value, next) == [v |-> value, next |-> next]
NotJson == Parsed(Raises("SyntaxError"), 0)

\* the first position at or after pos that holds no white space
RECURSIVE SkipSpace(_, _)
SkipSpace(text, pos) ==
  IF pos <= Len(text) /\ IsSpace(CharAt(text, pos)) THEN SkipSpace(text, pos + 1) ELSE pos

\* the first position at or after pos that holds a double quote
RECURSIVE ClosingQuote(_, _)
ClosingQuote(text, pos) ==
  IF pos > Len(text) \/ CharAt(text, pos) = "\"" THEN pos ELSE ClosingQuote(text, pos + 1)

\* a string literal whose opening quote is at pos
StringTo(text, pos, close) ==
  IF close > Len(text) THEN NotJson
  ELSE Parsed(Str(SubSeq(text, pos + 1, close - 1)), close + 1)
ParseString(text, pos) == StringTo(text, pos, ClosingQuote(text, pos + 1))

DigitOf(c) == (CHOOSE p \in 1..10 : Digits[p] = c) - 1

\* the digits from pos on, read onto the number acc
RECURSIVE ParseDigits(_, _, _)
ParseDigits(text, pos, acc) ==
  IF pos <= Len(text) /\ CharAt(text, pos) \in Range(Digits)
  THEN ParseDigits(text, pos + 1, 10 * acc + DigitOf(CharAt(text, pos)))
  ELSE Parsed(acc, pos)

\* a number literal, in tenths: whole part, then at most one decimal
WithFraction(text, whole, sign) ==
  IF /\ whole.next + 1 <= Len(text)
     /\ CharAt(text, whole.next) = "."
     /\ CharAt(text, whole.next + 1) \in Range(Digits)
  THEN Parsed(Num(sign * (10 * whole.v + DigitOf(CharAt(text, whole.next + 1)))),
              whole.next + 2)
  ELSE Parsed(Num(sign * 10 * whole.v), whole.next)
ParseNumber(text, pos) ==
  IF CharAt(text, pos) = "-"
  THEN IF pos + 1 <= Len(text) /\ CharAt(text, pos + 1) \in Range(Digits)
       THEN WithFraction(text, ParseDigits(text, pos + 1, 0), -1)
       ELSE NotJson
  ELSE WithFraction(text, ParseDigits(text, pos, 0), 1)

RECURSIVE ParseValue(_, _)
RECURSIVE ParseElements(_, _, _)
RECURSIVE ParseMembers(_, _, _)

\* the rest of an array after the element `element`
AfterElement(text, element, acc) ==
  IF element.v.type = "raise" THEN element
  ELSE ParseElements(text, SkipSpace(text, element.next), Append(acc, element.v))

\* the elements of an array from pos on, after the elements acc
ParseElements(text, pos, acc) ==
  IF pos > Len(text) THEN NotJson
  ELSE IF CharAt(text, pos) = "]" THEN Parsed(Arr(acc), pos + 1)
  ELSE IF CharAt(text, pos) = ","
  THEN IF acc = <<>> THEN NotJson
       ELSE AfterElement(text, ParseValue(text, SkipSpace(text, pos + 1)), acc)
  ELSE IF acc = <<>> THEN AfterElement(text, ParseValue(text, pos), acc)
  ELSE NotJson

\* the rest of an object after the member key: value
AfterMember(text, key, value, acc) ==
  IF value.v.type = "raise" THEN value
  ELSE ParseMembers(text, SkipSpace(text, value.next), Set(acc, key.v.v, value.v))

\* the value of the member whose key is `key`
AfterKey(text, key, colon, acc) ==
  IF key.v.type = "raise" \/ colon > Len(text) \/ CharAt(text, colon) # ":" THEN NotJson
  ELSE AfterMember(text, key, ParseValue(text, SkipSpace(text, colon + 1)), acc)

\* the member whose key starts at pos
ParseMember(text, pos, key, acc) ==
  AfterKey(text, key, IF key.v.type = "raise" THEN 0 ELSE SkipSpace(text, key.next), acc)

\* the members of an object from pos on, after the members of acc
ParseMembers(text, pos, acc) ==
  IF pos > Len(text) THEN NotJson
  ELSE IF CharAt(text, pos) = "}" THEN Parsed(acc, pos + 1)
  ELSE IF CharAt(text, pos) = ","
  THEN IF acc.v = <<>> \/ CharAt(text, SkipSpace(text, pos + 1)) # "\"" THEN NotJson
       ELSE ParseMember(text, pos, ParseString(text, SkipSpace(text, pos + 1)), acc)
  ELSE IF acc.v = <<>> /\ CharAt(text, pos) = "\""
  THEN ParseMember(text, pos, ParseString(text, pos), acc)
  ELSE NotJson

\* the value that starts at pos
ParseValue(text, pos) ==
  IF pos > Len(text) THEN NotJson
  ELSE IF CharAt(text, pos) = "{" THEN ParseMembers(text, SkipSpace(text, pos + 1), Obj(<<>>))
  ELSE IF CharAt(text, pos) = "[" THEN ParseElements(text, SkipSpace(text, pos + 1), <<>>)
  ELSE IF CharAt(text, pos) = "\"" THEN ParseString(text, pos)
  ELSE IF CharAt(text, pos) \in Range(Digits) \cup {"-"} THEN ParseNumber(text, pos)
  ELSE IF startsWith(SubSeq(text, pos, Len(text)), "true") THEN Parsed(Bool(TRUE), pos + 4)
  ELSE IF startsWith(SubSeq(text, pos, Len(text)), "false") THEN Parsed(Bool(FALSE), pos + 5)
  ELSE IF startsWith(SubSeq(text, pos, Len(text)), "null") THEN Parsed(Null, pos + 4)
  ELSE NotJson

\* JSON.parse(text): the value, or [type |-> "raise"] for the SyntaxError
WholeText(text, parsed) ==
  IF parsed.v.type = "raise" \/ SkipSpace(text, parsed.next) <= Len(text)
  THEN Raises("SyntaxError")
  ELSE parsed.v
JsonParse(text) == WholeText(text, ParseValue(text, SkipSpace(text, 1)))

----------------------------------------------------------------------------
(* lib/prompt.js: the schema describer                                     *)
(* A schema node is an object with a _def (Zod 3) and / or a _zod.def      *)
(* (Zod 4) entry; a lazily computed shape is [type |-> "function"] whose v *)
(* is the value the call returns.                                          *)

UNWRAP_GUARD == 20

Fn(returns) == [type |-> "function", v |-> returns]

\* x?.key
OptGet(x, key) == IF x.type = "object" THEN Get(x, key) ELSE Undefined
\* a ?? b
Coalesce(a, b) == IF IsNullish(a) THEN b ELSE a
\* the truthiness of a value
Truthy(x) ==
  CASE x.type \in {"undefined", "null"} -> FALSE
    [] x.type = "string" -> x.v # ""
    [] x.type = "boolean" -> x.v
    [] x.type = "number" -> x.special = "finite" /\ x.v # 0
    [] OTHER -> TRUE

\* the characters of object keys, in code-unit order
Ascii ==
  " $-.0123456789ABCDEFGHIJKLMNOPQRSTUVWXYZ_abcdefghijklmnopqrstuvwxyz"
CharCode(c) == CHOOSE p \in 1..Len(Ascii) : CharAt(Ascii, p) = c

\* a < b in the order Array.prototype.sort() uses for strings
RECURSIVE StringLess(_, _)
StringLess(a, b) ==
  IF Len(b) = 0 THEN FALSE
  ELSE IF Len(a) = 0 THEN TRUE
  ELSE IF CharAt(a, 1) = CharAt(b, 1)
       THEN StringLess(SubSeq(a, 2, Len(a)), SubSeq(b, 2, Len(b)))
  ELSE CharCode(CharAt(a, 1)) < CharCode(CharAt(b, 1))

RECURSIVE InsertSorted(_, _)
InsertSorted(sorted, key) ==
  IF sorted = <<>> THEN <<key>>
  ELSE IF StringLess(key, sorted[1]) THEN <<key>> \o sorted
  ELSE <<sorted[1]>> \o InsertSorted(Tail(sorted), key)

\* keys.sort()
sort_InsertionOrder(keys) == keys
RECURSIVE sort(_)
sort(keys) ==
  IF keys = <<>> THEN <<>>
  ELSE InsertSorted(sort(SubSeq(keys, 1, Len(keys) - 1)), keys[Len(keys)])

\* the `type` the describer reads: _def.type when it is a string, else _zod.def.type
NodeType(node) ==
  LET t3 == OptGet(OptGet(node, "_def"), "type")
  IN Coalesce(IF IsString(t3) THEN t3 ELSE Undefined,
              OptGet(OptGet(OptGet(node, "_zod"), "def"), "type"))

\* node?._def?.key ?? node?._zod?.def?.key
DefField(node, key) ==
  Coalesce(OptGet(OptGet(node, "_def"), key),
           OptGet(OptGet(OptGet(node, "_zod"), "def"), key))

\* the node a field of `current` holds: a reference of the node to itself
\* yields the node
Follow(inner, current) == IF inner.type = "cycle" THEN current ELSE inner

\* one iteration of the loop of unwrapZodSchema: the node to continue with,
\* or the node itself with done set when the loop breaks
UnwrapStep_TypeNameOnly(current) ==
  LET typeName == OptGet(OptGet(current, "_def"), "typeName")
  IN IF typeName \in {Str("ZodOptional"), Str("ZodNullable"), Str("ZodDefault"),
                      Str("ZodBranded"), Str("ZodReadonly"), Str("ZodCatch")}
     THEN [done |-> FALSE, node |-> Follow(Coalesce(DefField(current, "innerType"), current), current)]
     ELSE IF typeName = Str("ZodEffects")
     THEN [done |-> FALSE, node |-> Follow(Coalesce(DefField(current, "schema"), current), current)]
     ELSE IF typeName = Str("ZodPipeline")
     THEN [done |-> FALSE,
           node |-> Follow(Coalesce(DefField(current, "in"),
                                    Coalesce(DefField(current, "out"), current)),
                                  current)]
     ELSE [done |-> TRUE, node |-> current]
UnwrapStep(current) ==
  LET typeName == OptGet(OptGet(current, "_def"), "typeName")
      type == NodeType(current)
  IN IF \/ typeName \in {Str("ZodOptional"), Str("ZodNullable"), Str("ZodDefault"),
                         Str("ZodBranded"), Str("ZodReadonly"), Str("ZodCatch")}
        \/ type \in {Str("optional"), Str("nullable"), Str("default"),
                     Str("readonly"), Str("catch")}
     THEN [done |-> FALSE, node |-> Follow(Coalesce(DefField(current, "innerType"), current), current)]
     ELSE IF typeName = Str("ZodEffects")
     THEN [done |-> FALSE, node |-> Follow(Coalesce(DefField(current, "schema"), current), current)]
     ELSE IF typeName = Str("ZodPipeline") \/ type = Str("pipe")
     THEN [done |-> FALSE,
           node |-> Follow(Coalesce(DefField(current, "in"),
                                    Coalesce(DefField(current, "out"), current)),
                                  current)]
     ELSE IF type = Str("transform")
     THEN [done |-> FALSE, node |-> Follow(Coalesce(DefField(current, "schema"), current), current)]
     ELSE [done |-> TRUE, node |-> current]

\* while (current && guard < 20) { guard += 1; ... }: the node the loop ends
\* with and the value of guard, the number of iterations it ran
RECURSIVE UnwrapLoop_NoGuard(_, _)
UnwrapLoop_NoGuard(current, guard) ==
  IF ~(Truthy(current) /\ guard < 2 * UNWRAP_GUARD) THEN [node |-> current, guard |-> guard]
  ELSE IF UnwrapStep(current).done THEN [node |-> current, guard |-> guard + 1]
  ELSE UnwrapLoop_NoGuard(UnwrapStep(current).node, guard + 1)
RECURSIVE UnwrapLoop(_, _)
UnwrapLoop(current, guard) ==
  IF ~(Truthy(current) /\ guard < UNWRAP_GUARD) THEN [node |-> current, guard |-> guard]
  ELSE IF UnwrapStep(current).done THEN [node |-> current, guard |-> guard + 1]
  ELSE UnwrapLoop(UnwrapStep(current).node, guard + 1)

unwrapZodSchema(schema) == UnwrapLoop(schema, 0).node

\* `${x}` of a value that may be undefined
Interp(r) == IF r.kind = "text" THEN r.text ELSE "undefined"
\* the text Array.prototype.join writes for an element
Joined(r) == IF r.kind = "text" THEN r.text ELSE ""

RECURSIVE describeZodSchema(_)
RECURSIVE DescribeNode(_, _, _, _)

\* the branches of describeZodSchema, on the unwrapped node's definition records
\* (defV3 is s._def, defV4 is s._zod.def), its typeName and its type
DescribeNode_NamesKind(defV3, defV4, typeName, type) ==
  IF IsString(typeName) THEN Text(typeName.v)
  ELSE IF IsString(type) THEN Text(type.v)
  ELSE Text("unknown")
DescribeNode(defV3, defV4, typeName, type) ==
     IF typeName = Str("ZodString") \/ type = Str("string") THEN Text("string")
     ELSE IF typeName = Str("ZodNumber") \/ type = Str("number") THEN Text("number")
     ELSE IF typeName = Str("ZodBoolean") \/ type = Str("boolean") THEN Text("boolean")
     ELSE IF typeName = Str("ZodNull") \/ type = Str("null") THEN Text("null")
     ELSE IF \/ typeName \in {Str("ZodAny"), Str("ZodUnknown")}
             \/ type \in {Str("any"), Str("unknown")} THEN Text("any")
     ELSE IF typeName = Str("ZodLiteral") \/ type = Str("literal")
     THEN LET values == OptGet(defV4, "values")
              literalValue ==
                Coalesce(OptGet(defV3, "value"),
                  Coalesce(OptGet(defV4, "value"),
                    IF values.type = "array" /\ Len(values.v) > 0
                    THEN values.v[1] ELSE Undefined))
          IN JsonStringify(literalValue)
     ELSE IF typeName = Str("ZodEnum") \/ type = Str("enum")
     THEN LET entries == OptGet(defV4, "entries")
              values ==
                Coalesce(OptGet(defV3, "values"),
                  Coalesce(OptGet(defV4, "values"),
                    Coalesce(OptGet(defV4, "options"),
                      IF Truthy(entries)
                      THEN (IF entries.type = "object" THEN Arr([p \in 1..Len(entries.v) |-> Str(Keys(entries)[p])])
                            ELSE Arr(<<>>))
                      ELSE Null)))
          IN IF values.type = "array"
             THEN Text(JoinTexts([p \in 1..Len(values.v) |->
                                    Joined(JsonStringify(values.v[p]))], " | "))
             ELSE Text("enum")
     ELSE IF typeName = Str("ZodNativeEnum") THEN Text("enum")
     ELSE IF typeName = Str("ZodArray") \/ type = Str("array")
     THEN LET arrayItem ==
                Coalesce(OptGet(defV3, "element"),
                  Coalesce(OptGet(defV4, "element"),
                    Coalesce(OptGet(defV4, "items"), OptGet(defV3, "type"))))
          IN Text(Interp(describeZodSchema(arrayItem)) \o "[]")
     ELSE IF typeName = Str("ZodObject") \/ type = Str("object")
     THEN LET rawShape == Coalesce(OptGet(defV3, "shape"), OptGet(defV4, "shape"))
              shape == IF rawShape.type = "function" THEN rawShape.v ELSE rawShape
              keys == IF Truthy(shape) /\ shape.type = "object"
                      THEN sort(Keys(shape)) ELSE <<>>
              entries == [p \in 1..Len(keys) |->
                            Quote(keys[p]) \o ": "
                              \o Interp(describeZodSchema(Get(shape, keys[p])))]
          IN Text("{ " \o JoinTexts(entries, ", ") \o " }")
     ELSE IF typeName = Str("ZodUnion") \/ type = Str("union")
     THEN LET options == Coalesce(OptGet(defV3, "options"), OptGet(defV4, "options"))
          IN IF options.type = "array"
             THEN Text(JoinTexts([p \in 1..Len(options.v) |->
                                    Joined(describeZodSchema(options.v[p]))], " | "))
             ELSE Text("unknown")
     ELSE Text("unknown")

describeZodSchema(schema) ==
  LET s == unwrapZodSchema(schema)
      defV3 == OptGet(s, "_def")
  IN DescribeNode(defV3, OptGet(OptGet(s, "_zod"), "def"),
                  OptGet(defV3, "typeName"), NodeType(s))

----------------------------------------------------------------------------
(* lib/prompt.js: composing the outbound turn *)

BOX_SCHEMA_HINT_PREFIX ==
  "Return ONLY a valid JSON object (no text commentary or markdown) that exactly matches this schema (field names/types required):"
CONTEXT_BLOCK_PREFIX == "Context (JSON):"
USER_MESSAGE_BLOCK_PREFIX == "User message:"
INSTRUCTION_SEPARATOR == "\n\n"

buildBoxSchemaHint(schemaBox) ==
  IF ~Truthy(schemaBox) THEN ""
  ELSE BOX_SCHEMA_HINT_PREFIX \o " " \o Interp(describeZodSchema(schemaBox))

buildContextEnvelope(input, serializedContext) ==
  IF serializedContext = "" THEN input
  ELSE CONTEXT_BLOCK_PREFIX \o "\n" \o serializedContext \o INSTRUCTION_SEPARATOR
         \o USER_MESSAGE_BLOCK_PREFIX \o "\n" \o input

buildEffectiveInput(input, serializedContext, schemaBox) ==
  LET baseInput == buildContextEnvelope(input, serializedContext)
      boxSchemaHint == buildBoxSchemaHint(schemaBox)
  IN IF boxSchemaHint = "" THEN baseInput
     ELSE boxSchemaHint \o INSTRUCTION_SEPARATOR \o baseInput

\* lib/kimten.js: buildOutboundUserContent
buildOutboundUserContent_TextOnly(effectiveInput, attachments) ==
  Str(effectiveInput)
buildOutboundUserContent(effectiveInput, attachments) ==
  IF Len(attachments) > 0
  THEN Arr(<<Obj(<<<<"type", Str("text")>>, <<"text", Str(effectiveInput)>>>>)>>
             \o attachments)
  ELSE Str(effectiveInput)

\* buildMessagesForAgent(memoryMessages, effectiveInput, rawInput, outboundUserContent):
\* the last user message carries the outbound content when that differs from the raw input
buildMessagesForAgent(memoryMessages, effectiveInput, rawInput, outboundUserContent) ==
  LET lastMessage == memoryMessages[Len(memoryMessages)]
      shouldReplaceLastUserMessage ==
        effectiveInput # rawInput \/ outboundUserContent.type = "array"
  IN IF memoryMessages = <<>> THEN memoryMessages
     ELSE IF ~shouldReplaceLastUserMessage \/ lastMessage.role # "user"
     THEN memoryMessages
     ELSE SubSeq(memoryMessages, 1, Len(memoryMessages) - 1)
            \o <<[lastMessage EXCEPT !.content = outboundUserContent]>>

----------------------------------------------------------------------------
(* lib/attachments.js *)

\* a URL object
Url(href) == [type |-> "url", v |-> href]

isAttachmentSource(value) == value.type \in {"string", "url", "bytes"}

IsLetter(c) == LowerChar(c) \in Range(Lowers)
IsSchemeChar(c) == IsLetter(c) \/ c \in Range(Digits) \/ c \in {"+", ".", "-"}

\* /^[a-z][a-z0-9+.-]*:\/\//i.test(text)
HasUriScheme(text) ==
  \E n \in 1..(Len(text) - 3) :
    /\ SubSeq(text, n + 1, n + 3) = "://"
    /\ IsLetter(CharAt(text, 1))
    /\ \A p \in 2..n : IsSchemeChar(CharAt(text, p))

\* toCandidateLocalPath(value): the trimmed path, or "" for null
toCandidateLocalPath(value) ==
  LET trimmed == trim(value)
  IN IF trimmed = "" \/ startsWith(trimmed, "data:") \/ HasUriScheme(trimmed)
     THEN "" ELSE trimmed

\* node:path basename(path)
basename(path) ==
  LET solid == {p \in 1..Len(path) : CharAt(path, p) # "/"}
      end == IF solid = {} THEN 0 ELSE CHOOSE p \in solid : \A q \in solid : q <= p
      slashes == {p \in 1..end : CharAt(path, p) = "/"}
      start == IF slashes = {} THEN 1
               ELSE (CHOOSE p \in slashes : \A q \in slashes : q <= p) + 1
  IN SubSeq(path, start, end)

\* what the file system answers for one path: stat() finds a regular file
\* and readFile() succeeds, stat() finds a directory, stat() throws, or
\* stat() finds a file and readFile() throws
FsOutcomes == {"file", "directory", "stat-throws", "read-throws"}

NoFile == [found |-> FALSE, bytes |-> Bytes(""), path |-> ""]

\* tryReadLocalFile(value) under the file-system answer fs
tryReadLocalFile_AnyEntry(value, fs) ==
  LET path == toCandidateLocalPath(value)
  IN IF path = "" THEN NoFile
     ELSE IF fs \in {"file", "directory"}
     THEN [found |-> TRUE, bytes |-> Bytes(path), path |-> path]
     ELSE NoFile
tryReadLocalFile(value, fs) ==
  LET path == toCandidateLocalPath(value)
  IN IF path = "" THEN NoFile
     ELSE IF fs = "file" THEN [found |-> TRUE, bytes |-> Bytes(path), path |-> path]
     ELSE NoFile

normalizeImageAttachment(attachment) ==
  LET mediaType == Get(attachment, "mediaType")
  IN IF ~isAttachmentSource(Get(attachment, "image")) THEN Throws("TypeError")
     ELSE IF mediaType.type # "undefined" /\ mediaType.type # "string" THEN Throws("TypeError")
     ELSE IF mediaType.type = "string" /\ trim(mediaType.v) = "" THEN Throws("TypeError")
     ELSE [kind |-> "ok",
           value |-> Obj(<<<<"type", Str("image")>>, <<"image", Get(attachment, "image")>>>>
                         \o (IF Truthy(mediaType)
                             THEN <<<<"mediaType", Str(trim(mediaType.v))>>>> ELSE <<>>))]

normalizeFileAttachment(attachment) ==
  LET mediaType == Get(attachment, "mediaType")
      filename == Get(attachment, "filename")
  IN IF ~isAttachmentSource(Get(attachment, "data")) THEN Throws("TypeError")
     ELSE IF mediaType.type # "string" THEN Throws("TypeError")
     ELSE IF trim(mediaType.v) = "" THEN Throws("TypeError")
     ELSE IF filename.type # "undefined" /\ filename.type # "string" THEN Throws("TypeError")
     ELSE IF filename.type = "string" /\ trim(filename.v) = "" THEN Throws("TypeError")
     ELSE [kind |-> "ok",
           value |-> Obj(<<<<"type", Str("file")>>, <<"data", Get(attachment, "data")>>,
                           <<"mediaType", Str(trim(mediaType.v))>>>>
                         \o (IF Truthy(filename)
                             THEN <<<<"filename", Str(trim(filename.v))>>>> ELSE <<>>))]

normalizeAttachment(attachment) ==
  IF ~isPlainObject(attachment) THEN Throws("TypeError")
  ELSE IF Get(attachment, "kind") = Str("image") THEN normalizeImageAttachment(attachment)
  ELSE IF Get(attachment, "kind") = Str("file") THEN normalizeFileAttachment(attachment)
  ELSE Throws("TypeError")

\* normalizeAttachmentsOption(value): [kind |-> "ok", value |-> the list] or the throw
normalizeAttachmentsOption(value) ==
  IF value.type = "undefined" THEN [kind |-> "ok", value |-> <<>>]
  ELSE IF value.type # "array" THEN Throws("TypeError")
  ELSE LET each == [p \in 1..Len(value.v) |-> normalizeAttachment(value.v[p])]
       IN IF \E p \in 1..Len(each) : each[p].kind = "throw" THEN Throws("TypeError")
          ELSE [kind |-> "ok", value |-> [p \in 1..Len(each) |-> each[p].value]]

\* the callback resolveAttachmentPayloads maps over the attachments
resolveAttachment(attachment, fs) ==
  LET image == Get(attachment, "image")
      data == Get(attachment, "data")
      filename == Get(attachment, "filename")
  IN IF /\ Get(attachment, "type") = Str("image")
        /\ image.type = "string"
        /\ tryReadLocalFile(image.v, fs).found
     THEN Set(attachment, "image", tryReadLocalFile(image.v, fs).bytes)
     ELSE IF /\ Get(attachment, "type") = Str("file")
             /\ data.type = "string"
             /\ tryReadLocalFile(data.v, fs).found
     THEN LET local == tryReadLocalFile(data.v, fs)
              withData == Set(attachment, "data", local.bytes)
          IN IF Truthy(filename) THEN withData
             ELSE Set(withData, "filename", Str(basename(local.path)))
     ELSE attachment

\* resolveAttachmentPayloads(attachments): Promise.all keeps the input order
resolveAttachmentPayloads(attachments, fs) ==
  [p \in 1..Len(attachments) |-> resolveAttachment(attachments[p], fs[p])]

----------------------------------------------------------------------------
(* lib/play-options.js *)

ALLOWED_PLAY_OPTIONS_KEYS ==
  {"attachments", "temperature", "topP", "topK", "maxOutputTokens"}
NUMERIC_PLAY_OPTION_KEYS == <<"temperature", "topP", "topK">>

\* Number.isInteger(value)
IsInteger(value) ==
  value.type = "number" /\ value.special = "finite" /\ value.v % 10 = 0

\* validateNumericPlayOption(value, key, _): does it throw?
NumericOptionThrows(value, key) ==
  /\ value.type # "undefined"
  /\ \/ value.type # "number"
     \/ value.special # "finite"
     \/ key = "topP" /\ (value.v < 0 \/ value.v > 10)
     \/ key = "topK" /\ (~IsInteger(value) \/ value.v < 10)

\* the entries of obj under the given keys that are not undefined, in key order
RECURSIVE PickDefined(_, _)
PickDefined(obj, keys) ==
  IF keys = <<>> THEN <<>>
  ELSE (IF Get(obj, keys[1]).type = "undefined" THEN <<>>
        ELSE <<<<keys[1], Get(obj, keys[1])>>>>)
       \o PickDefined(obj, Tail(keys))

\* validatePlayOptions(options):
\* [kind |-> "ok", attachments |-> ..., callOptions |-> ...] or the throw
validatePlayOptions_NoChecks(options) ==
  IF IsNullish(options) \/ options.type # "object"
  THEN [kind |-> "ok", attachments |-> <<>>, callOptions |-> Obj(<<>>)]
  ELSE LET normalized == normalizeAttachmentsOption(Get(options, "attachments"))
       IN [kind |-> "ok",
           attachments |-> IF normalized.kind = "ok" THEN normalized.value ELSE <<>>,
           callOptions |-> Obj(PickDefined(options, Keys(options)))]
validatePlayOptions(options) ==
  IF IsNullish(options)
  THEN [kind |-> "ok", attachments |-> <<>>, callOptions |-> Obj(<<>>)]
  ELSE IF ~isPlainObject(options) THEN Throws("TypeError")
  ELSE IF \E p \in 1..Len(options.v) : options.v[p][1] \notin ALLOWED_PLAY_OPTIONS_KEYS
  THEN Throws("TypeError")
  ELSE IF \E p \in 1..Len(NUMERIC_PLAY_OPTION_KEYS) :
            NumericOptionThrows(Get(options, NUMERIC_PLAY_OPTION_KEYS[p]),
                                NUMERIC_PLAY_OPTION_KEYS[p])
  THEN Throws("TypeError")
  ELSE IF /\ Get(options, "maxOutputTokens").type # "undefined"
          /\ (~IsInteger(Get(options, "maxOutputTokens"))
              \/ Get(options, "maxOutputTokens").v < 10)
  THEN Throws("TypeError")
  ELSE LET normalized == normalizeAttachmentsOption(Get(options, "attachments"))
       IN IF normalized.kind = "throw" THEN normalized
          ELSE [kind |-> "ok",
                attachments |-> normalized.value,
                callOptions |->
                  Obj(PickDefined(options,
                                  NUMERIC_PLAY_OPTION_KEYS \o <<"maxOutputTokens">>))]

----------------------------------------------------------------------------
(* A stand-alone memory store driven by add / list / clear *)

TestMessages ==
  { Message(r, Str(c)) : r \in {"user", "assistant"}, c \in {"0", "1"} }

\* the closure variables of Kimten({ box }) after construction
NewKimten(schemaBox) ==
  [limit |-> MEMORY_LIMIT, history |-> <<>>, listed |-> <<>>, memlog |-> <<>>,
   box |-> schemaBox, calls |-> <<>>, playQueue |-> 0]

KimtenIdle ==
  /\ box = Undefined
  /\ calls = <<>>
  /\ playQueue = 0
  /\ peer = NewKimten(Undefined)

InitMem ==
  /\ limit \in 1..MaxLimit
  /\ history = <<>>
  /\ listed = <<>>
  /\ memlog = <<>>
  /\ KimtenIdle
  /\ given = <<>>
  /\ returned = <<>>

MemAdd(message) ==
  /\ Len(memlog) < MaxOps
  /\ history' = add(history, limit, message)
  /\ memlog' = Append(memlog, LogAdd(message, 0))
  /\ UNCHANGED <<limit, listed, box, calls, playQueue, peer, given, returned>>

MemList ==
  /\ listed' = list(history)
  /\ UNCHANGED <<limit, history, memlog, box, calls, playQueue, peer, given, returned>>

MemClear ==
  /\ Len(memlog) < MaxOps
  /\ history' = clear(history)
  /\ memlog' = Append(memlog, LogClear)
  /\ UNCHANGED <<limit, listed, box, calls, playQueue, peer, given, returned>>

NextMem ==
  \/ \E message \in TestMessages : MemAdd(message)
  \/ MemList
  \/ MemClear

SpecMem == InitMem /\ [][NextMem]_vars

\* A caller that writes through the value list() returned.  history.slice()
\* is a new array holding the same record objects as history.

\* const l = list(); l.push(message)
MemListPush(message) ==
  /\ listed' = Append(list(history), message)
  /\ UNCHANGED <<limit, history, memlog, box, calls, playQueue, peer, given, returned>>

\* const l = list(); l[p - 1].content = content: l[p - 1] is the object
\* history[p - 1]
MemListSetContent(p, content) ==
  /\ p \in 1..Len(list(history))
  /\ history' = [history EXCEPT ![p].content = content]
  /\ listed' = list(history')
  /\ UNCHANGED <<limit, memlog, box, calls, playQueue, peer, given, returned>>

NextAlias ==
  \/ \E message \in TestMessages : MemAdd(message)
  \/ MemList
  \/ MemClear
  \/ MemListPush(Message("user", Str("x")))
  \/ \E p \in 1..MaxLimit : MemListSetContent(p, Str("x"))

SpecAlias == InitMem /\ [][NextAlias]_vars

----------------------------------------------------------------------------
(* lib/tools.js: the tool registry                                         *)
(* A tool's execute is modelled by what one call of it does: it returns    *)
(* (or resolves with) a value, or it throws (or rejects with) a value.     *)

\* new Error(message)
ErrorOf(message) == [type |-> "error", v |-> message]
\* a BigInt with its decimal digits
BigIntOf(digits) == [type |-> "bigint", v |-> digits]
\* a reference back to an enclosing object
Circular == [type |-> "cycle", v |-> ""]

Returned(value) == [kind |-> "return", value |-> value]
Thrown(value) == [kind |-> "throw", value |-> value]

RECURSIVE StringOf(_)
\* String(value): the text, or the TypeError of an object that has no
\* toString to call (a function's text stands for its source)
StringOf(value) ==
  CASE value.type = "string" -> Text(value.v)
    [] value.type = "number" ->
         Text(IF value.special = "finite" THEN NumberText(value.v) ELSE "NaN")
    [] value.type = "boolean" -> Text(IF value.v THEN "true" ELSE "false")
    [] value.type = "undefined" -> Text("undefined")
    [] value.type = "null" -> Text("null")
    [] value.type = "bigint" -> Text(value.v)
    [] value.type = "error" ->
         Text(IF value.v = "" THEN "Error" ELSE "Error: " \o value.v)
    [] value.type = "function" -> Text("() => {}")
    [] value.type = "array" ->
         LET items == [p \in 1..Len(value.v) |->
                         IF IsNullish(value.v[p]) THEN Text("")
                         ELSE StringOf(value.v[p])]
         IN IF \E p \in 1..Len(items) : items[p].kind = "throw"
            THEN Throws("TypeError")
            ELSE Text(JoinTexts([p \in 1..Len(items) |-> items[p].text], ","))
    [] value.type = "object" ->
         IF value.proto = "null" THEN Throws("TypeError")
         ELSE Text("[object Object]")
    [] OTHER -> Text("[object Object]")

RECURSIVE JsonSafeReplace(_)
\* the value JSON.stringify walks under toJsonSafe's replacer: a BigInt is
\* its digits, an object seen before is '[Circular]'
JsonSafeReplace(value) ==
  CASE value.type = "bigint" -> Str(value.v)
    [] value.type = "cycle" -> Str("[Circular]")
    [] value.type = "array" ->
         [value EXCEPT !.v = [p \in 1..Len(value.v) |-> JsonSafeReplace(value.v[p])]]
    [] value.type = "object" ->
         [value EXCEPT !.v = [p \in 1..Len(value.v) |->
                                <<value.v[p][1], JsonSafeReplace(value.v[p][2])>>]]
    [] OTHER -> value

RECURSIVE SelectProps(_)
\* the properties JSON.stringify writes: not undefined, not a function
SelectProps(entries) ==
  IF entries = <<>> THEN <<>>
  ELSE IF entries[1][2].type \in {"undefined", "function"} THEN SelectProps(Tail(entries))
  ELSE <<entries[1]>> \o SelectProps(Tail(entries))

RECURSIVE JsonParsed(_)
\* JSON.parse of the text JSON.stringify wrote for value: plain objects and
\* arrays of strings, finite numbers, booleans and null
JsonParsed(value) ==
  CASE value.type = "number" -> IF value.special = "finite" THEN value ELSE Null
    [] value.type \in {"undefined", "function"} -> Null
    [] value.type = "error" -> Obj(<<>>)
    [] value.type = "array" ->
         Arr([p \in 1..Len(value.v) |-> JsonParsed(value.v[p])])
    [] value.type = "object" ->
         LET kept == SelectProps(value.v)
         IN Obj([p \in 1..Len(kept) |-> <<kept[p][1], JsonParsed(kept[p][2])>>])
    [] OTHER -> value

\* toJsonSafe(value): what it returns, or what it throws
toJsonSafe(value) ==
  IF value.type = "undefined" THEN Returned(Null)
  ELSE IF JsonStringify(JsonSafeReplace(value)).kind = "text"
  THEN Returned(JsonParsed(JsonSafeReplace(value)))
  ELSE IF StringOf(value).kind = "throw" THEN Thrown(ErrorOf("Cannot convert object to primitive value"))
  ELSE Returned(Obj(<<<<"value", Str(StringOf(value).text)>>>>))

\* the catch block of the wrapped execute of the tool `name`
ExecuteCatch(name, error) ==
  IF error.type = "error"
  THEN Returned(Obj(<<<<"error", Str(error.v)>>, <<"toolName", Str(name)>>>>))
  ELSE IF StringOf(error).kind = "throw"
  THEN Thrown(ErrorOf("Cannot convert object to primitive value"))
  ELSE Returned(Obj(<<<<"error", Str(StringOf(error).text)>>, <<"toolName", Str(name)>>>>))

\* wrapped[name].execute(args) when definition.execute(args) ends in outcome
execute(name, outcome) ==
  IF outcome.kind = "throw" THEN ExecuteCatch(name, outcome.value)
  ELSE IF toJsonSafe(outcome.value).kind = "throw"
  THEN ExecuteCatch(name, toJsonSafe(outcome.value).value)
  ELSE toJsonSafe(outcome.value)

\* normalizeToys(toys): the wrapped execute of every entry, by name
normalizeToys(toys) ==
  [p \in 1..Len(toys) |-> <<toys[p][1], execute(toys[p][1], toys[p][2])>>]

ToolNames == {"boom", "add"}

\* values a tool may return or throw
ToolValues ==
  { Undefined, Null, Str("failed"), Str(""), Num(50), NaN, Bool(FALSE),
    BigIntOf("9007199254740993"), ErrorOf("failed"), ErrorOf(""),
    Fn(Undefined), Arr(<<Num(10), Undefined>>), Arr(<<>>),
    Obj(<<<<"code", Num(4040)>>, <<"skip", Undefined>>>>),
    Obj(<<<<"self", Circular>>>>),
    [type |-> "object", proto |-> "null", v |-> <<>>],
    Arr(<<[type |-> "object", proto |-> "null", v |-> <<>>]>>) }

ToolOutcomes == {Returned(v) : v \in ToolValues} \cup {Thrown(v) : v \in ToolValues}

\* the registries of two tools, and the name of the tool that is called
InitTools ==
  /\ limit = MEMORY_LIMIT
  /\ history = <<>>
  /\ listed = <<>>
  /\ memlog = <<>>
  /\ KimtenIdle
  /\ \E first \in ToolOutcomes, name \in ToolNames :
       \E other \in {Returned(Num(50)), Thrown(ErrorOf("other"))} :
         given = <<name, <<<<"boom", first>>, <<"add", other>>>>>>
  /\ returned = <<>>

\* const wrapped = normalizeToys(toys); await wrapped[name].execute(args)
CallExecute ==
  /\ returned = <<>>
  /\ \E p \in 1..Len(given[2]) :
       /\ given[2][p][1] = given[1]
       /\ returned' = <<normalizeToys(given[2])[p][2]>>
  /\ UNCHANGED <<limit, history, listed, memlog, box, calls, playQueue, peer, given>>

NextTools == CallExecute

SpecTools == InitTools /\ [][NextTools]_vars

----------------------------------------------------------------------------
(* serializeContext called on its own, on two contexts at a time *)

\* key names whose lowercase form contains password, token, secret, apikey
\* or api_key
SensitiveNames == {"token", "apiKey", "API_KEY", "userPassword", "client_secret"}

\* values a caller may hold under such a key
SecretValues ==
  { Str("s3cr3t"), Str("hunter2"), Num(420), Undefined,
    Obj(<<<<"inner", Str("s3cr3t")>>>>) }

\* contexts holding value under key: at the top, in a nested object, in an
\* object of an array, and in an object of an array of a nested object
ContextsWith(key, value) ==
  << Obj(<<<<"requestId", Str("req-1")>>, <<key, value>>>>),
     Obj(<<<<"user", Obj(<<<<"name", Str("kim")>>, <<key, value>>>>)>>>>),
     Obj(<<<<"items", Arr(<<Obj(<<<<key, value>>>>), Obj(<<<<"name", Str("a")>>>>)>>)>>>>),
     Obj(<<<<"a", Obj(<<<<"b", Arr(<<Obj(<<<<key, value>>, <<"n", Num(15)>>>>)>>)>>>>)>>>>) >>

\* two contexts that differ at most in the value under one sensitive key
ContextPairs ==
  { <<ContextsWith(key, v)[n], ContextsWith(key, w)[n]>> :
      key \in SensitiveNames, v \in SecretValues, w \in SecretValues, n \in 1..4 }

InitCtx ==
  /\ limit = MEMORY_LIMIT
  /\ history = <<>>
  /\ listed = <<>>
  /\ memlog = <<>>
  /\ KimtenIdle
  /\ given \in ContextPairs
  /\ returned = <<>>

\* serializeContext(given[1]); serializeContext(given[2])
CallSerializeContext ==
  /\ returned = <<>>
  /\ returned' = [p \in 1..Len(given) |-> serializeContext(given[p])]
  /\ UNCHANGED <<limit, history, listed, memlog, box, calls, playQueue, peer, given>>

NextCtx == CallSerializeContext

\* key names of a context, two of them sensitive
PlainNames == {"id", "self", "when", "token", "apiKey"}

\* values JSON.stringify cannot write as they are: a reference back to an
\* enclosing object, a BigInt, objects whose toJSON throws, yields undefined
\* or yields a string; and two it can
HardValues ==
  { [type |-> "cycle", v |-> ""],
    [type |-> "bigint", v |-> "1"],
    Arr(<<[type |-> "bigint", v |-> "1"]>>),
    Obj(<<<<"toJSON", Fn(Raises("Error"))>>>>),
    Obj(<<<<"toJSON", Fn(Undefined)>>>>),
    Obj(<<<<"toJSON", Fn(Str("2026-01-01"))>>>>),
    Str("ok"), Num(10) }

\* plain-object contexts: a hard value at each of the four positions, and a
\* context that has a toJSON itself
HardContexts ==
  { ContextsWith(key, value)[n] : key \in PlainNames, value \in HardValues, n \in 1..4 }
    \cup { Obj(<<<<"id", Num(10)>>, <<"toJSON", Fn(r)>>>>) :
             r \in {Raises("Error"), Undefined, Obj(<<<<"id", Num(20)>>>>)} }

InitHard ==
  /\ limit = MEMORY_LIMIT
  /\ history = <<>>
  /\ listed = <<>>
  /\ memlog = <<>>
  /\ KimtenIdle
  /\ \E context \in HardContexts : given = <<context>>
  /\ returned = <<>>

SpecHard == InitHard /\ [][NextCtx]_vars

\* values of every JSON kind, and values JSON.stringify writes as another
\* kind or leaves out
RoundValues ==
  SecretValues \cup
  { Null, Bool(TRUE), Bool(FALSE), Num(-15), Num(0), Str(""), Str(REDACTED),
    Arr(<<>>), Obj(<<>>), Arr(<<Num(10), Undefined, Str("two")>>),
    [type |-> "number", v |-> 0, special |-> "NaN"],
    Obj(<<<<"toJSON", Fn(Str("2026-01-01"))>>>>),
    Obj(<<<<"toJSON", Fn(Undefined)>>>>),
    Obj(<<<<"password", Str("pw")>>, <<"kept", Obj(<<<<"Secret_Key", Num(10)>>>>)>>>>) }

\* what the toJSON of a context itself may return
RootReturns ==
  { Undefined, Null, Str("plain"), Num(10), Arr(<<Obj(<<<<"token", Str("t")>>>>)>>),
    Obj(<<>>), Obj(<<<<"token", Str("t")>>, <<"id", Num(20)>>>>) }

RoundContexts ==
  { ContextsWith(key, value)[n] :
      key \in SensitiveNames \cup {"note"}, value \in RoundValues, n \in 1..4 }
    \cup { Obj(<<<<"id", Num(10)>>, <<"toJSON", Fn(r)>>>>) : r \in RootReturns }

InitRound ==
  /\ limit = MEMORY_LIMIT
  /\ history = <<>>
  /\ listed = <<>>
  /\ memlog = <<>>
  /\ KimtenIdle
  /\ \E context \in RoundContexts : given = <<context>>
  /\ returned = <<>>

\* serializeContext(parsed), or the SyntaxError of JSON.parse
SerializeParsed(parsed) ==
  IF parsed.type = "raise" THEN Throws(parsed.v) ELSE serializeContext(parsed)

\* serializeContext(JSON.parse(text)) of the untruncated text returned
CallSerializeParsed ==
  /\ Len(returned) = 1
  /\ returned[1].kind = "text"
  /\ returned[1].text # ""
  /\ Len(returned[1].text) <= CONTEXT_CHAR_LIMIT
  /\ returned' = Append(returned, SerializeParsed(JsonParse(returned[1].text)))
  /\ UNCHANGED <<limit, history, listed, memlog, box, calls, playQueue, peer, given>>

NextRound == CallSerializeContext \/ CallSerializeParsed

SpecRound == InitRound /\ [][NextRound]_vars

----------------------------------------------------------------------------
(* unwrapZodSchema and describeZodSchema called on their own *)

\* a descriptor node in the Zod 3 encoding, { _def: { typeName, ...fields } },
\* and in the Zod 4 encoding, { _zod: { def: { type, ...fields } } }
V3(typeName, fields) ==
  Obj(<<<<"_def", Obj(<<<<"typeName", Str(typeName)>>>> \o fields)>>>>)
V4(type, fields) ==
  Obj(<<<<"_zod", Obj(<<<<"def", Obj(<<<<"type", Str(type)>>>> \o fields)>>>>)>>>>)

\* the wrapper kinds unwrapZodSchema follows: encoding, tag, and the field
\* that holds the wrapped node
WrapperKinds ==
  << <<3, "ZodOptional", "innerType">>, <<4, "optional", "innerType">>,
     <<3, "ZodNullable", "innerType">>, <<4, "nullable", "innerType">>,
     <<3, "ZodDefault", "innerType">>,  <<4, "default", "innerType">>,
     <<3, "ZodBranded", "innerType">>,  <<4, "readonly", "innerType">>,
     <<3, "ZodReadonly", "innerType">>, <<4, "catch", "innerType">>,
     <<3, "ZodCatch", "innerType">>,    <<4, "pipe", "in">>,
     <<3, "ZodEffects", "schema">>,     <<4, "pipe", "out">>,
     <<3, "ZodPipeline", "in">>,        <<4, "transform", "schema">>,
     <<3, "ZodPipeline", "out">> >>

Wrap(kind, inner) ==
  IF kind[1] = 3 THEN V3(kind[2], <<<<kind[3], inner>>>>)
  ELSE V4(kind[2], <<<<kind[3], inner>>>>)

\* the node wrapped in the kinds of chain, the first outermost
RECURSIVE WrapAll(_, _)
WrapAll(chain, inner) ==
  IF inner.type # "object" \/ chain = <<>> THEN inner
  ELSE WrapAll(SubSeq(chain, 1, Len(chain) - 1), Wrap(chain[Len(chain)], inner))

\* the primitive nodes, in both encodings
Primitives ==
  { V3("ZodString", <<>>), V4("string", <<>>), V3("ZodNumber", <<>>), V4("number", <<>>),
    V3("ZodBoolean", <<>>), V4("boolean", <<>>), V3("ZodNull", <<>>), V4("null", <<>>),
    V3("ZodAny", <<>>), V3("ZodUnknown", <<>>), V4("any", <<>>), V4("unknown", <<>>) }

\* chains of wrapper kinds: every order of up to MaxChain kinds, and chains
\* that run through the kinds in turn, of lengths around UNWRAP_GUARD
MaxChain == 2

RECURSIVE ChainsOf(_)
ChainsOf(n) ==
  IF n = 0 THEN {<<>>}
  ELSE {<<WrapperKinds[k]>> \o chain : k \in 1..Len(WrapperKinds), chain \in ChainsOf(n - 1)}

LongChain(n) == [p \in 1..n |-> WrapperKinds[((p - 1) % Len(WrapperKinds)) + 1]]

Chains ==
  UNION {ChainsOf(n) : n \in 1..MaxChain}
    \cup {LongChain(n) : n \in {UNWRAP_GUARD - 1, UNWRAP_GUARD, UNWRAP_GUARD + 1}}

\* a wrapped primitive, and the primitive alone
WrappedPairs ==
  {<<WrapAll(chain, primitive), primitive>> : chain \in Chains, primitive \in Primitives}

\* a node whose field refers to the node itself
SelfReference == [type |-> "cycle", v |-> ""]

\* malformed wrappers: the wrapped node is missing, null, or the wrapper
\* itself
Malformed(kind) ==
  { IF kind[1] = 3 THEN V3(kind[2], fields) ELSE V4(kind[2], fields) :
      fields \in { <<>>, <<<<kind[3], Null>>>>, <<<<kind[3], SelfReference>>>> } }

MalformedWrappers == UNION {Malformed(WrapperKinds[k]) : k \in 1..Len(WrapperKinds)}

\* a malformed wrapper, alone or inside one well-formed wrapper
MalformedInputs ==
  { <<node>> : node \in MalformedWrappers }
    \cup { <<Wrap(WrapperKinds[k], node)>> :
             k \in 1..Len(WrapperKinds), node \in MalformedWrappers }

\* field names in the order of their UTF-16 code units, and the node and the
\* signature of the field of each name
FieldNames == <<"Zeta", "_id", "alpha", "alpha2", "zeta">>
FieldNodes ==
  << V3("ZodString", <<>>), V4("number", <<>>), V3("ZodBoolean", <<>>),
     V4("null", <<>>), V3("ZodAny", <<>>) >>
FieldSignatures == <<"string", "number", "boolean", "null", "any">>

\* objects have the first MaxFields fields, in every order
MaxFields == 3

Orders == {order \in [1..MaxFields -> 1..MaxFields] :
             \A p, q \in 1..MaxFields : order[p] = order[q] => p = q}

\* the shape with the fields in the given order
ShapeOf(order) ==
  Obj([p \in 1..MaxFields |-> <<FieldNames[order[p]], FieldNodes[order[p]]>>])

\* an object node: Zod 3 with a shape, Zod 3 with a function that returns
\* the shape, Zod 4
ObjectNode(form, order) ==
  CASE form = 1 -> V3("ZodObject", <<<<"shape", ShapeOf(order)>>>>)
    [] form = 2 -> V3("ZodObject", <<<<"shape", Fn(ShapeOf(order))>>>>)
    [] form = 3 -> V4("object", <<<<"shape", ShapeOf(order)>>>>)

\* the object node at the top, as a field of an object, as the element of
\* an array
Placed(level, form, order) ==
  CASE level = 1 -> ObjectNode(form, order)
    [] level = 2 ->
         V4("object",
            <<<<"shape",
                Obj(IF order[1] = 1
                    THEN <<<<"inner", ObjectNode(form, order)>>, <<"Alpha", V4("string", <<>>)>>>>
                    ELSE <<<<"Alpha", V4("string", <<>>)>>, <<"inner", ObjectNode(form, order)>>>>)>>>>)
    [] level = 3 -> V3("ZodArray", <<<<"type", ObjectNode(form, order)>>>>)

\* two object descriptors with the same fields in two orders
ObjectPairs ==
  { <<Placed(level, form, first), Placed(level, form, second)>> :
      level \in 1..3, form \in 1..3, first \in Orders, second \in Orders }

\* nodes of no known kind: no node, values that are not descriptors, kinds
\* the describer has no branch for, tags that are not strings, and unions
\* whose options are not an array
UnknownNodes ==
  { Undefined, Null, Num(50), Str("string"), Bool(TRUE), Arr(<<>>), Obj(<<>>),
    Fn(V3("ZodString", <<>>)),
    Obj(<<<<"_def", Str("ZodString")>>>>), Obj(<<<<"_def", Null>>>>),
    Obj(<<<<"_zod", Obj(<<>>)>>>>), Obj(<<<<"_zod", Obj(<<<<"def", Null>>>>)>>>>),
    Obj(<<<<"typeName", Str("ZodString")>>>>),
    V3("ZodDate", <<>>), V3("ZodBigInt", <<>>), V3("ZodRecord", <<>>),
    V3("ZodTuple", <<<<"items", Arr(<<V3("ZodString", <<>>)>>)>>>>),
    V3("ZodLazy", <<>>), V3("ZodIntersection", <<>>), V3("zodstring", <<>>),
    V3("", <<>>), V4("date", <<>>), V4("bigint", <<>>), V4("tuple", <<>>),
    V4("record", <<>>), V4("String", <<>>), V4("", <<>>),
    Obj(<<<<"_def", Obj(<<<<"typeName", Num(10)>>>>)>>>>),
    Obj(<<<<"_def", Obj(<<<<"type", Num(10)>>>>)>>>>),
    Obj(<<<<"_zod", Obj(<<<<"def", Obj(<<<<"type", Arr(<<Str("string")>>)>>>>)>>>>)>>>>),
    V3("ZodUnion", <<>>), V4("union", <<>>),
    V3("ZodUnion", <<<<"options", Null>>>>),
    V3("ZodUnion", <<<<"options", Obj(<<<<"0", V3("ZodString", <<>>)>>>>)>>>>),
    V4("union", <<<<"options", Str("string")>>>>),
    V4("union", <<<<"options", Fn(Arr(<<V4("string", <<>>)>>))>>>>) }

\* a node of no known kind: alone, inside one wrapper, as the element of an
\* array, as the second option of a union
UnknownInputs ==
  { <<node>> : node \in UnknownNodes }
    \cup { <<Wrap(WrapperKinds[k], node)>> : k \in 1..Len(WrapperKinds), node \in UnknownNodes }
    \cup { <<V3("ZodArray", <<<<"element", node>>>>)>> : node \in UnknownNodes }
    \cup { <<V4("union", <<<<"options", Arr(<<V4("number", <<>>), node>>)>>>>)>> :
             node \in UnknownNodes }

\* the schemas the functions are called with
IsSchemaInput(schemas) ==
  \/ schemas \in WrappedPairs
  \/ schemas \in MalformedInputs
  \/ schemas \in ObjectPairs
  \/ schemas \in UnknownInputs

InitBox ==
  /\ limit = MEMORY_LIMIT
  /\ history = <<>>
  /\ listed = <<>>
  /\ memlog = <<>>
  /\ KimtenIdle
  /\ IsSchemaInput(given)
  /\ returned = <<>>

\* unwrapZodSchema(given[1]); unwrapZodSchema(given[2])
CallUnwrap ==
  /\ returned = <<>>
  /\ returned' = <<"unwrapZodSchema">> \o [p \in 1..Len(given) |-> UnwrapLoop(given[p], 0)]
  /\ UNCHANGED <<limit, history, listed, memlog, box, calls, playQueue, peer, given>>

\* describeZodSchema(given[1]); describeZodSchema(given[2])
CallDescribe ==
  /\ returned = <<>>
  /\ returned' = <<"describeZodSchema">> \o [p \in 1..Len(given) |-> describeZodSchema(given[p])]
  /\ UNCHANGED <<limit, history, listed, memlog, box, calls, playQueue, peer, given>>

NextBox == CallUnwrap \/ CallDescribe

SpecBox == InitBox /\ [][NextBox]_vars

----------------------------------------------------------------------------
(* lib/attachments.js: resolveAttachmentPayloads, one callback at a time    *)
(*                                                                         *)
(* attachments.map starts one async callback per attachment; a callback    *)
(* whose source is a candidate local path is suspended at await stat(path) *)
(* and then at await readFile(path), the others are fulfilled at once.     *)
(* Promise.all is fulfilled when every callback is, and playOnce, which    *)
(* awaits it, then composes the turn.                                      *)

\* the attachments option of play(), before normalizeAttachmentsOption
AttachmentOptions ==
  { Obj(<<<<"kind", Str("image")>>, <<"image", Str("./img/cat.png")>>>>),
    Obj(<<<<"kind", Str("image")>>, <<"image", Str(" ./img/dog.png\n")>>,
          <<"mediaType", Str("image/png")>>>>),
    Obj(<<<<"kind", Str("image")>>, <<"image", Str("https://example.com/cat.png")>>>>),
    Obj(<<<<"kind", Str("image")>>, <<"image", Str("data:image/png;base64,AA==")>>>>),
    Obj(<<<<"kind", Str("image")>>, <<"image", Url("file:///img/cat.png")>>>>),
    Obj(<<<<"kind", Str("file")>>, <<"data", Str("./docs/notes.txt")>>,
          <<"mediaType", Str("text/plain")>>>>),
    Obj(<<<<"kind", Str("file")>>, <<"data", Str("\t./docs/report.pdf ")>>,
          <<"mediaType", Str("application/pdf")>>, <<"filename", Str("q3.pdf")>>>>),
    Obj(<<<<"kind", Str("file")>>, <<"data", Str("docs/")>>,
          <<"mediaType", Str("text/plain")>>>>),
    Obj(<<<<"kind", Str("file")>>, <<"data", Str("S3://bucket/key")>>,
          <<"mediaType", Str("text/plain")>>>>),
    Obj(<<<<"kind", Str("file")>>, <<"data", Bytes("inline")>>,
          <<"mediaType", Str("application/octet-stream")>>>>) }

MaxAttachments == 2

AttachmentLists ==
  UNION { [1..n -> AttachmentOptions] : n \in 1..MaxAttachments }

\* attachment.image of an image attachment, attachment.data of a file attachment
SourceOf(attachment) ==
  IF Get(attachment, "type") = Str("image") THEN Get(attachment, "image")
  ELSE Get(attachment, "data")

\* the callback reaches await stat(path)
AwaitsStat(attachment) ==
  SourceOf(attachment).type = "string" /\ toCandidateLocalPath(SourceOf(attachment).v) # ""

\* the callback of one attachment up to its first suspension
StartCallback(attachment) ==
  IF AwaitsStat(attachment)
  THEN [at |-> "stat", fs |-> "", value |-> Undefined]
  ELSE [at |-> "fulfilled", fs |-> "", value |-> resolveAttachment(attachment, "file")]

\* the callback of one attachment once the file system has answered fs
FinishCallback(attachment, fs) ==
  [at |-> "fulfilled", fs |-> fs, value |-> resolveAttachment(attachment, fs)]

\* Promise.all is fulfilled once every promise it was given is
AllFulfilled(slots) == \A p \in 1..Len(slots) : slots[p].at = "fulfilled"

\* the value Promise.all is fulfilled with: one value per input promise, at
\* the index of that promise; order is the order the promises were fulfilled in
PromiseAll_CompletionOrder(slots, order) ==
  [k \in 1..Len(order) |-> slots[order[k]].value]
PromiseAll(slots, order) ==
  [p \in 1..Len(slots) |-> slots[p].value]

\* the indexes 1..n that satisfy the test, ascending
RECURSIVE IndexesWhere(_, _)
IndexesWhere(slots, n) ==
  IF n = 0 THEN <<>>
  ELSE IndexesWhere(slots, n - 1) \o (IF slots[n].at = "fulfilled" THEN <<n>> ELSE <<>>)

InitAttach ==
  /\ limit = MEMORY_LIMIT
  /\ history = <<>>
  /\ listed = <<>>
  /\ memlog = <<>>
  /\ KimtenIdle
  /\ \E options \in AttachmentLists : given = normalizeAttachmentsOption(Arr(options)).value
  /\ returned = <<>>

\* playOnce calls resolveAttachmentPayloads(attachments)
CallResolve ==
  /\ returned = <<>>
  /\ LET slots == [p \in 1..Len(given) |-> StartCallback(given[p])]
     IN returned' = [at |-> "resolving", slots |-> slots,
                     order |-> IndexesWhere(slots, Len(slots)),
                     payloads |-> <<>>, content |-> Undefined]
  /\ UNCHANGED <<limit, history, listed, memlog, box, calls, playQueue, peer, given>>

\* stat(path) of attachment p settles
StatSettles(p, info) ==
  /\ returned # <<>>
  /\ returned.at = "resolving"
  /\ p \in 1..Len(returned.slots)
  /\ returned.slots[p].at = "stat"
  /\ returned' =
       IF info = "file"
       THEN [returned EXCEPT !.slots[p].at = "read"]
       ELSE [returned EXCEPT !.slots[p] = FinishCallback(given[p], info),
                             !.order = Append(@, p)]
  /\ UNCHANGED <<limit, history, listed, memlog, box, calls, playQueue, peer, given>>

\* readFile(path) of attachment p settles
ReadSettles(p, read) ==
  /\ returned # <<>>
  /\ returned.at = "resolving"
  /\ p \in 1..Len(returned.slots)
  /\ returned.slots[p].at = "read"
  /\ returned' = [returned EXCEPT !.slots[p] = FinishCallback(given[p], read),
                                  !.order = Append(@, p)]
  /\ UNCHANGED <<limit, history, listed, memlog, box, calls, playQueue, peer, given>>

\* every callback is fulfilled: the promise of Promise.all is
AllSettle ==
  /\ returned # <<>>
  /\ returned.at = "resolving"
  /\ AllFulfilled(returned.slots)
  /\ returned' = [returned EXCEPT !.at = "resolved",
                                  !.payloads = PromiseAll(returned.slots, returned.order)]
  /\ UNCHANGED <<limit, history, listed, memlog, box, calls, playQueue, peer, given>>

\* playOnce resumes after await resolveAttachmentPayloads(attachments)
ComposeTurn ==
  /\ returned # <<>>
  /\ returned.at = "resolved"
  /\ returned' = [returned EXCEPT !.at = "composed",
                                  !.content = buildOutboundUserContent("look", returned.payloads)]
  /\ UNCHANGED <<limit, history, listed, memlog, box, calls, playQueue, peer, given>>

NextAttach ==
  \/ CallResolve
  \/ \E p \in 1..MaxAttachments : \E info \in {"file", "directory", "stat-throws"} :
       StatSettles(p, info)
  \/ \E p \in 1..MaxAttachments : \E read \in {"file", "read-throws"} : ReadSettles(p, read)
  \/ AllSettle
  \/ ComposeTurn

SpecAttach == InitAttach /\ [][NextAttach]_vars

SpecCtx == InitCtx /\ [][NextCtx]_vars

----------------------------------------------------------------------------
(* lib/kimten.js: one Kimten instance                                      *)
(*                                                                         *)
(* A call is the promise play() returned together with the locals of its  *)
(* playOnce activation.  pc is its position:                               *)
(*   queued     waiting on playQueue.then                                  *)
(*   resolving  suspended at await resolveAttachmentPayloads               *)
(*   generating suspended at await agent.generate                         *)
(*   resolved / rejected   the promise has settled (settled is its value)  *)
(* logAtSubmit, logAtAdmit and admitHistory record the store at those two  *)
(* moments; no step reads them.                                            *)

Err(name, message) == [type |-> "error", name |-> name, v |-> message]

\* the schema z.object({ name: z.string() }) used as box
NameBox ==
  Obj(<<<<"_def",
          Obj(<<<<"typeName", Str("ZodObject")>>,
                <<"shape",
                  Fn(Obj(<<<<"name",
                            Obj(<<<<"_def",
                                    Obj(<<<<"typeName", Str("ZodString")>>>>)>>>>)>>>>))>>>>)>>>>)

Boxes == {Undefined, NameBox}

\* the context of the tests: { requestId: 'req-1', token: 'super-secret-token' }
RequestContext ==
  Obj(<<<<"requestId", Str("req-1")>>, <<"token", Str("super-secret-token")>>>>)

ImageUrl == Obj(<<<<"kind", Str("image")>>, <<"image", Str("https://example.com/cat.png")>>>>)
LocalFile ==
  Obj(<<<<"kind", Str("file")>>, <<"data", Str("./docs/notes.txt")>>,
        <<"mediaType", Str("text/plain")>>>>)

Args(input, context, options) ==
  [input |-> input, context |-> context, options |-> options]

\* the argument lists play() is called with
ValidPlayArgs ==
  { Args(Str("first"), Null, Undefined),
    Args(Str("second"), RequestContext,
         Obj(<<<<"temperature", Num(5)>>, <<"topP", Num(10)>>, <<"topK", Num(10)>>>>)),
    Args(Str("third"), Null,
         Obj(<<<<"attachments", Arr(<<ImageUrl, LocalFile>>)>>,
               <<"maxOutputTokens", Num(1000)>>>>)) }

InvalidPlayArgs ==
  { Args(Num(10), Null, Undefined),
    Args(Str("fourth"), Arr(<<Str("x")>>),
         Obj(<<<<"attachments", Arr(<<LocalFile>>)>>>>)),
    Args(Str("fifth"), Null, Obj(<<<<"stream", Bool(TRUE)>>>>)),
    Args(Str("sixth"), Null, Obj(<<<<"topP", Num(20)>>>>)),
    Args(Str("seventh"), Null,
         Obj(<<<<"attachments", Arr(<<Obj(<<<<"kind", Str("video")>>>>)>>)>>>>)) }

PlayArgs == ValidPlayArgs \cup InvalidPlayArgs

\* what agent.generate resolves with
BackendResults ==
  { Obj(<<<<"text", Str("ok")>>, <<"output", Undefined>>>>),
    Obj(<<<<"text", Str("")>>, <<"output", Obj(<<<<"name", Str("kim")>>>>)>>>>) }

\* what agent.generate rejects with
BackendError == Err("Error", "backend failure")

toAssistantMemoryContent(result, schemaBox) ==
  LET text == Get(result, "text")
  IN IF ~Truthy(schemaBox)
     THEN (IF text.type = "string" THEN text ELSE Str(""))
     ELSE IF text.type = "string" /\ trim(text.v) # "" THEN text
     ELSE Str(Interp(JsonStringify(Coalesce(Get(result, "output"), Null))))

NewCall(args, queue, log) ==
  [input |-> args.input, context |-> args.context, options |-> args.options,
   pc |-> "queued", prev |-> queue,
   attachments |-> <<>>, callOptions |-> Obj(<<>>),
   effectiveInput |-> "", messages |-> <<>>,
   result |-> Undefined, settled |-> Undefined,
   logAtSubmit |-> Len(log), logAtAdmit |-> 0, admitHistory |-> <<>>]

Settled(c) == c.pc \in {"resolved", "rejected"}
InFlight(c) == c.pc \in {"resolving", "generating"}

Rejected(c, error) == [c EXCEPT !.pc = "rejected", !.settled = error]

\* playQueue.then(...) on the promise q: q is the initial Promise.resolve()
\* or run.catch(() => {}) of call q, fulfilled once run has settled
ChainSettled_Unqueued(q) == TRUE
ChainSettled_OnStart(q) == IF q = 0 THEN TRUE ELSE calls[q].pc # "queued"
ChainSettled_OnlyFulfilled(q) == IF q = 0 THEN TRUE ELSE calls[q].pc = "resolved"
ChainSettled(q) == IF q = 0 THEN TRUE ELSE Settled(calls[q])

\* typeof input !== 'string'
IsStringInput_Any(input) == TRUE
IsStringInput(input) == input.type = "string"

\* playOnce up to its first await: the input check and validatePlayOptions
PlayOnceStart(c) ==
  LET validated == validatePlayOptions(c.options)
  IN IF ~IsStringInput(c.input) THEN Rejected(c, Err("TypeError", "input"))
     ELSE IF validated.kind = "throw" THEN Rejected(c, Err("TypeError", "options"))
     ELSE [c EXCEPT !.pc = "resolving",
                    !.attachments = validated.attachments,
                    !.callOptions = validated.callOptions]

\* playOnce from the resolved attachments to the call of agent.generate
\* the call at agent.generate, its messages built from the effective input
OutboundCall(c, resolvedAttachments, fetched, effectiveInput) ==
  [c EXCEPT !.pc = "generating",
            !.attachments = resolvedAttachments,
            !.effectiveInput = effectiveInput,
            !.messages =
              buildMessagesForAgent(Append(fetched, Message("user", c.input)),
                                    effectiveInput, c.input.v,
                                    buildOutboundUserContent(effectiveInput,
                                                             resolvedAttachments))]

\* the turn composed around the serialized context, or the rejection with
\* the TypeError serializeContext threw
ComposeAround(c, resolvedAttachments, fetched, schemaBox, serializedContext) ==
  IF serializedContext.kind = "throw" THEN Rejected(c, Err("TypeError", "context"))
  ELSE OutboundCall(c, resolvedAttachments, fetched,
                    buildEffectiveInput(c.input.v, serializedContext.text, schemaBox))

PlayOnceCompose(c, resolvedAttachments, fetched, schemaBox) ==
  ComposeAround(c, resolvedAttachments, fetched, schemaBox, serializeContext(c.context))

\* the records playOnce adds to memory after a successful generation
MemoryRecords_Reversed(c, assistantContent) ==
  <<Message("assistant", assistantContent), Message("user", c.input)>>
MemoryRecords_Enriched(c, assistantContent) ==
  <<Message("user", c.messages[Len(c.messages)].content),
    Message("assistant", assistantContent)>>
MemoryRecords(c, assistantContent) ==
  <<Message("user", c.input), Message("assistant", assistantContent)>>

\* memory.add of each record in turn
RECURSIVE AddAll(_, _, _)
AddAll(h, lim, records) ==
  IF records = <<>> THEN h
  ELSE AddAll(add(h, lim, records[1]), lim, Tail(records))

LogAll(records, by) == [p \in 1..Len(records) |-> LogAdd(records[p], by)]

Init ==
  /\ limit = MEMORY_LIMIT
  /\ history = <<>>
  /\ listed = <<>>
  /\ memlog = <<>>
  /\ box \in Boxes
  /\ calls = <<>>
  /\ playQueue = 0
  /\ peer = NewKimten(Undefined)
  /\ given = <<>>
  /\ returned = <<>>

\* play(input, context, options): chain the turn behind playQueue
Play(args) ==
  /\ Len(calls) < MaxCalls
  /\ calls' = Append(calls, NewCall(args, playQueue, memlog))
  /\ playQueue' = Len(calls) + 1
  /\ UNCHANGED <<limit, history, listed, memlog, box, peer, given, returned>>

\* the callback call i passed to playQueue.then may run
CanAdmit(i) ==
  /\ calls[i].pc = "queued"
  /\ ChainSettled(calls[i].prev)

\* the callback of playQueue.then runs: playOnce starts
Admit(i) ==
  /\ CanAdmit(i)
  /\ calls' = [calls EXCEPT ![i] =
                 [PlayOnceStart(calls[i]) EXCEPT !.logAtAdmit = Len(memlog),
                                                 !.admitHistory = history]]
  /\ UNCHANGED <<limit, history, listed, memlog, box, playQueue, peer, given, returned>>

\* resolveAttachmentPayloads settles: playOnce composes the turn and calls
\* agent.generate
Compose_EarlyAdd(i, fs) ==
  /\ calls[i].pc = "resolving"
  /\ LET c == calls[i]
         userRecord == Message("user", c.input)
         next == PlayOnceCompose(c, resolveAttachmentPayloads(c.attachments, fs),
                                 list(history), box)
     IN /\ calls' = [calls EXCEPT ![i] = next]
        /\ listed' = IF calls'[i].pc = "generating" THEN list(history) ELSE listed
        /\ history' = IF calls'[i].pc = "generating"
                      THEN add(history, limit, userRecord) ELSE history
        /\ memlog' = IF calls'[i].pc = "generating"
                     THEN Append(memlog, LogAdd(userRecord, i)) ELSE memlog
  /\ UNCHANGED <<limit, box, playQueue, peer, given, returned>>
Compose_AdmitSnapshot(i, fs) ==
  /\ calls[i].pc = "resolving"
  /\ LET c == calls[i]
         next == PlayOnceCompose(c, resolveAttachmentPayloads(c.attachments, fs),
                                 c.admitHistory, box)
     IN /\ calls' = [calls EXCEPT ![i] = next]
        /\ listed' = IF calls'[i].pc = "generating" THEN c.admitHistory ELSE listed
  /\ UNCHANGED <<limit, history, memlog, box, playQueue, peer, given, returned>>
Compose(i, fs) ==
  /\ calls[i].pc = "resolving"
  /\ LET c == calls[i]
         next == PlayOnceCompose(c, resolveAttachmentPayloads(c.attachments, fs),
                                 list(history), box)
     IN /\ calls' = [calls EXCEPT ![i] = next]
        /\ listed' = IF calls'[i].pc = "generating" THEN list(history) ELSE listed
  /\ UNCHANGED <<limit, history, memlog, box, playQueue, peer, given, returned>>

\* agent.generate resolves: commit the turn to memory and resolve the call
GenerateResolve_PreviousOutcome(i, result) ==
  /\ calls[i].pc = "generating"
  /\ LET c == calls[i]
         assistantContent == toAssistantMemoryContent(result, box)
         records == MemoryRecords(c, assistantContent)
     IN /\ history' = AddAll(history, limit, records)
        /\ memlog' = memlog \o LogAll(records, i)
        /\ calls' = [calls EXCEPT ![i] =
                       [c EXCEPT !.pc = "resolved",
                                 !.result = result,
                                 !.settled = IF c.prev # 0 /\ calls[c.prev].pc = "resolved"
                                             THEN calls[c.prev].settled
                                             ELSE IF Truthy(box) THEN Get(result, "output")
                                             ELSE assistantContent]]
  /\ UNCHANGED <<limit, listed, box, playQueue, peer, given, returned>>
GenerateResolve(i, result) ==
  /\ calls[i].pc = "generating"
  /\ LET c == calls[i]
         assistantContent == toAssistantMemoryContent(result, box)
         records == MemoryRecords(c, assistantContent)
     IN /\ history' = AddAll(history, limit, records)
        /\ memlog' = memlog \o LogAll(records, i)
        /\ calls' = [calls EXCEPT ![i] =
                       [c EXCEPT !.pc = "resolved",
                                 !.result = result,
                                 !.settled = IF Truthy(box) THEN Get(result, "output")
                                             ELSE assistantContent]]
  /\ UNCHANGED <<limit, listed, box, playQueue, peer, given, returned>>

\* agent.generate rejects: the error leaves playOnce
GenerateReject_KeepsUser(i) ==
  /\ calls[i].pc = "generating"
  /\ history' = add(history, limit, Message("user", calls[i].input))
  /\ memlog' = Append(memlog, LogAdd(Message("user", calls[i].input), i))
  /\ calls' = [calls EXCEPT ![i] = Rejected(calls[i], BackendError)]
  /\ UNCHANGED <<limit, listed, box, playQueue, peer, given, returned>>
GenerateReject(i) ==
  /\ calls[i].pc = "generating"
  /\ calls' = [calls EXCEPT ![i] = Rejected(calls[i], BackendError)]
  /\ UNCHANGED <<limit, history, listed, memlog, box, playQueue, peer, given, returned>>

\* forget(): memory.clear(); on an empty store the call changes nothing
Forget_KeepsRecords ==
  /\ history # <<>>
  /\ history' = history
  /\ memlog' = Append(memlog, LogClear)
  /\ UNCHANGED <<limit, listed, box, calls, playQueue, peer, given, returned>>
Forget ==
  /\ history # <<>>
  /\ history' = clear(history)
  /\ memlog' = Append(memlog, LogClear)
  /\ UNCHANGED <<limit, listed, box, calls, playQueue, peer, given, returned>>

Next ==
  \/ \E args \in PlayArgs : Play(args)
  \/ \E i \in 1..Len(calls) : Admit(i)
  \/ \E i \in 1..Len(calls) :
       \E fs \in [1..Len(calls[i].attachments) -> FsOutcomes] : Compose(i, fs)
  \/ \E i \in 1..Len(calls) : \E result \in BackendResults : GenerateResolve(i, result)
  \/ \E i \in 1..Len(calls) : GenerateReject(i)
  \/ Forget

Spec == Init /\ [][Next]_vars

\* the records of n earlier turns that succeeded, oldest first
RECURSIVE EarlierRecords(_)
EarlierRecords(n) ==
  IF n = 0 THEN <<>>
  ELSE EarlierRecords(n - 1) \o
       <<Message("user", Str("earlier-" \o ToString(n))),
         Message("assistant", Str("reply-" \o ToString(n)))>>

\* how many turns succeeded before: none, one less than the store holds,
\* and as many as the store holds
PriorTurns == {0, MEMORY_LIMIT \div 2 - 1, MEMORY_LIMIT \div 2}

\* an instance whose earlier turns have been committed to memory
InitFull ==
  /\ limit = MEMORY_LIMIT
  /\ \E n \in PriorTurns : history = AddAll(<<>>, limit, EarlierRecords(n))
  /\ listed = <<>>
  /\ memlog = <<>>
  /\ box = Undefined
  /\ calls = <<>>
  /\ playQueue = 0
  /\ peer = NewKimten(Undefined)
  /\ given = <<>>
  /\ returned = <<>>

\* the argument lists of the turns that follow: two valid, one invalid
TurnArgs ==
  { Args(Str("first"), Null, Undefined),
    Args(Str("second"), RequestContext, Undefined),
    Args(Num(10), Null, Undefined) }

NextFull ==
  \/ \E args \in TurnArgs : Play(args)
  \/ \E i \in 1..Len(calls) : Admit(i)
  \/ \E i \in 1..Len(calls) :
       \E fs \in [1..Len(calls[i].attachments) -> FsOutcomes] : Compose(i, fs)
  \/ \E i \in 1..Len(calls) : \E result \in BackendResults : GenerateResolve(i, result)
  \/ \E i \in 1..Len(calls) : GenerateReject(i)
  \/ Forget

SpecFull == InitFull /\ [][NextFull]_vars

\* The microtask of a settled playQueue runs, and every attachment
\* resolution and every backend call settles.
\* Each conjunct is weak fairness of a step, WF_vars(A), written out as
\* []<>(~ENABLED <<A>>_vars) \/ []<><<A>>_vars with the guard of the step for
\* ENABLED: every one of these steps changes the pc of its call.
CanCompose(i) == calls[i].pc = "resolving"
AtBackend(i) == calls[i].pc = "generating"

Fairness ==
  /\ \/ []<>(~(\E i \in 1..Len(calls) : CanAdmit(i)))
     \/ []<><<\E i \in 1..Len(calls) : Admit(i)>>_vars
  /\ \/ []<>(~(\E i \in 1..Len(calls) : CanCompose(i)))
     \/ []<><<\E i \in 1..Len(calls) :
                \E fs \in [1..Len(calls[i].attachments) -> FsOutcomes] : Compose(i, fs)>>_vars
  /\ \/ []<>(~(\E i \in 1..Len(calls) : AtBackend(i)))
     \/ []<><<\E i \in 1..Len(calls) :
                \/ \E result \in BackendResults : GenerateResolve(i, result)
                \/ GenerateReject(i)>>_vars

\* the argument lists of the calls whose progress is followed: a plain turn,
\* a turn with an attachment, a call rejected on admission and a call rejected
\* after its attachments resolved
LivePlayArgs ==
  { Args(Str("first"), Null, Undefined),
    Args(Str("third"), Null, Obj(<<<<"attachments", Arr(<<ImageUrl>>)>>>>)),
    Args(Num(10), Null, Undefined),
    Args(Str("fourth"), Arr(<<Str("x")>>),
         Obj(<<<<"attachments", Arr(<<LocalFile>>)>>>>)) }

NextLive ==
  \/ \E args \in LivePlayArgs : Play(args)
  \/ \E i \in 1..Len(calls) : Admit(i)
  \/ \E i \in 1..Len(calls) :
       \E fs \in [1..Len(calls[i].attachments) -> FsOutcomes] : Compose(i, fs)
  \/ \E i \in 1..Len(calls) : \E result \in BackendResults : GenerateResolve(i, result)
  \/ \E i \in 1..Len(calls) : GenerateReject(i)
  \/ Forget

SpecLive == Init /\ [][NextLive]_vars /\ Fairness

\* Two instances.  The steps above act on the instance whose closure
\* variables are limit .. playQueue; peer holds the closure variables of the
\* other instance, and Switch makes the other instance the one the next
\* operations address.
Closure ==
  [limit |-> limit, history |-> history, listed |-> listed, memlog |-> memlog,
   box |-> box, calls |-> calls, playQueue |-> playQueue]

Switch_SharedMemory ==
  /\ peer' = Closure
  /\ box' = peer.box
  /\ calls' = peer.calls
  /\ playQueue' = peer.playQueue
  /\ UNCHANGED <<limit, history, listed, memlog, given, returned>>
Switch ==
  /\ peer' = Closure
  /\ limit' = peer.limit
  /\ history' = peer.history
  /\ listed' = peer.listed
  /\ memlog' = peer.memlog
  /\ box' = peer.box
  /\ calls' = peer.calls
  /\ playQueue' = peer.playQueue
  /\ UNCHANGED <<given, returned>>

\* play() on the addressed instance, MaxCalls calls over both instances
PlayTwo(args) ==
  /\ Len(calls) + Len(peer.calls) < MaxCalls
  /\ Play(args)

NextTwo ==
  \/ \E args \in LivePlayArgs : PlayTwo(args)
  \/ \E i \in 1..Len(calls) : Admit(i)
  \/ \E i \in 1..Len(calls) :
       \E fs \in [1..Len(calls[i].attachments) -> FsOutcomes] : Compose(i, fs)
  \/ \E i \in 1..Len(calls) : \E result \in BackendResults : GenerateResolve(i, result)
  \/ \E i \in 1..Len(calls) : GenerateReject(i)
  \/ Forget
  \/ Switch

SpecTwo == Init /\ [][NextTwo]_vars

----------------------------------------------------------------------------
(* C6: the length of the memory store never exceeds its capacity, in any   *)
(* state reachable by add, list and clear.                                 *)
C6_LengthWithinLimit == Len(history) <= limit

\* a full store that has already evicted a record
C6_Witness ==
  /\ Len(history) = limit
  /\ Len(SinceClear(memlog)) > limit

(* C7: after k add() calls on a fresh store of capacity N >= 1, list()     *)
(* returns exactly the last min(k, N) inserted records in insertion order; *)
(* when k > N the oldest survivor is insert number k-N counting from 0.    *)
C7_ListIsLastInserted ==
  NoClear(memlog) =>
    LET ins == Inserted(memlog)
        k == Len(ins)
    IN /\ list(history) = LastN(ins, Min(k, limit))
       /\ Len(list(history)) = Min(k, limit)
       /\ k > limit => list(history)[1] = ins[(k - limit) + 1]

\* more inserts than the capacity, with distinct first and last records
C7_Witness ==
  /\ NoClear(memlog)
  /\ Len(memlog) > limit + 1
  /\ limit >= 2
  /\ history[1] # history[Len(history)]
  /\ Inserted(memlog)[1] # history[1]

----------------------------------------------------------------------------
(* Vocabulary of the claims about one instance *)

CallIds == 1..Len(calls)

\* the positions of memlog at which call i added a record
EntriesBy(i) == {p \in 1..Len(memlog) : memlog[p].op = "add" /\ memlog[p].by = i}

\* the call was made with one of the invalid argument lists
InvalidCall(c) == Args(c.input, c.context, c.options) \in InvalidPlayArgs

\* call i was submitted while call i-1 had not settled, and admitted after
\* call i-1 committed its records
Overlapped(i) ==
  /\ i > 1
  /\ calls[i - 1].pc = "resolved"
  /\ calls[i].pc # "queued"
  /\ calls[i].logAtSubmit < calls[i].logAtAdmit
  /\ \E p \in EntriesBy(i - 1) : p > calls[i].logAtSubmit

\* the records of the resolved calls among 1..n, in submission order
RECURSIVE RecordsOfResolved(_)
RecordsOfResolved(n) ==
  IF n = 0 THEN <<>>
  ELSE RecordsOfResolved(n - 1) \o
       (IF calls[n].pc = "resolved"
        THEN <<Message("user", calls[n].input),
               Message("assistant", toAssistantMemoryContent(calls[n].result, box))>>
        ELSE <<>>)

(* C1: the memory appends of two overlapping play() calls occur in         *)
(* submission order: every append of an earlier call precedes every append *)
(* of a later call, and the stored order is c1-user, c1-assistant,         *)
(* c2-user, c2-assistant.                                                  *)
C1_AppendsInSubmissionOrder ==
  /\ \A p, q \in 1..Len(memlog) :
       (p < q /\ memlog[p].op = "add" /\ memlog[q].op = "add")
         => memlog[p].by <= memlog[q].by
  /\ Inserted(memlog) = RecordsOfResolved(Len(calls))
  /\ NoClear(memlog) =>
       history = LastN(RecordsOfResolved(Len(calls)),
                       Min(Len(RecordsOfResolved(Len(calls))), limit))

\* two overlapping calls have both succeeded and their four records are stored
C1_Witness ==
  /\ Len(calls) >= 2
  /\ Overlapped(2)
  /\ calls[2].pc = "resolved"
  /\ Len(history) = 4
  /\ history[1].content # history[3].content

(* C2: at most one turn of an instance is between admission and settlement *)
(* at any time; a turn leaves the queue only when every earlier-submitted  *)
(* turn has settled.                                                       *)
C2_OneTurnAtATime ==
  /\ Cardinality({i \in CallIds : InFlight(calls[i])}) <= 1
  /\ \A i \in CallIds :
       calls[i].pc # "queued" => \A j \in 1..(i - 1) : Settled(calls[j])

\* a turn submitted during the previous turn is at the backend after it
C2_Witness ==
  /\ Len(calls) >= 2
  /\ Overlapped(2)
  /\ calls[2].pc = "generating"

(* C3: a turn writes to memory only when its generation succeeds: no       *)
(* record of the turn exists until then, and on success exactly two        *)
(* adjacent records are added, {user, raw input} then {assistant, reply}.  *)
C3_WritesOnlyOnSuccess ==
  \A i \in CallIds :
    IF calls[i].pc = "resolved"
    THEN \E p \in 1..(Len(memlog) - 1) :
           /\ EntriesBy(i) = {p, p + 1}
           /\ memlog[p].message = Message("user", calls[i].input)
           /\ memlog[p + 1].message.role = "assistant"
           /\ memlog[p + 1].message.content.type = "string"
           /\ LET text == Get(calls[i].result, "text")
              IN (text.type = "string" /\ (text.v # "" \/ ~Truthy(box)))
                   => memlog[p + 1].message.content = text
    ELSE EntriesBy(i) = {}

\* one turn has committed its two records and the next is at the backend
C3_Witness ==
  \E i, j \in CallIds :
    /\ calls[i].pc = "resolved"
    /\ Cardinality(EntriesBy(i)) = 2
    /\ calls[j].pc = "generating"
    /\ Len(calls[j].messages) = 3

(* C4: when the backend call of a turn fails, the failure is delivered to  *)
(* that turn's caller and memory is what it was when the turn was          *)
(* admitted: the turn's user record is not stored.                         *)
C4_BackendFailureLeavesMemory ==
  [][\A i \in CallIds :
       (calls[i].pc = "generating" /\ calls'[i].pc = "rejected") =>
         /\ calls'[i].settled = BackendError
         /\ \A j \in CallIds \ {i} : calls'[j] = calls[j]
         /\ history' = history
         /\ memlog' = memlog
         /\ EntriesBy(i) = {}
         /\ NoClear(SubSeq(memlog, calls[i].logAtAdmit + 1, Len(memlog)))
              => history' = calls[i].admitHistory]_vars

\* a turn admitted on a non-empty memory has failed at the backend
C4_Witness ==
  \E i \in CallIds :
    /\ calls[i].pc = "rejected"
    /\ calls[i].settled = BackendError
    /\ history # <<>>
    /\ history = calls[i].admitHistory

(* C5: a failed play() call does not block later calls: once it has        *)
(* settled the next queued call can start, and it runs against the memory  *)
(* the failed call left unchanged.                                         *)
C5_FailureDoesNotBlock ==
  \A i \in CallIds :
    (calls[i].prev # 0 /\ calls[calls[i].prev].pc = "rejected") =>
      /\ calls[i].pc = "queued" => CanAdmit(i)
      /\ EntriesBy(calls[i].prev) = {}
      /\ (calls[i].pc # "queued"
          /\ calls[i].logAtAdmit = calls[calls[i].prev].logAtAdmit)
           => calls[i].admitHistory = calls[calls[i].prev].admitHistory

\* a call queued behind a failed call has run to success
C5_Witness ==
  \E i \in CallIds :
    /\ calls[i].prev # 0
    /\ calls[calls[i].prev].pc = "rejected"
    /\ calls[calls[i].prev].settled = BackendError
    /\ calls[i].logAtSubmit = 0
    /\ calls[i].pc = "resolved"
    /\ Len(history) = 2

(* C8: the user record stored for a turn holds exactly the raw input:      *)
(* serialized context, schema hint and attachment payloads appear in no    *)
(* stored record, hence in no record of the history sent with later turns. *)
PlainRecord(m) ==
  /\ m.content.type = "string"
  /\ ~includes(m.content.v, CONTEXT_BLOCK_PREFIX)
  /\ ~includes(m.content.v, BOX_SCHEMA_HINT_PREFIX)
  /\ ~includes(m.content.v, REDACTED)

C8_StoredUserRecordIsRaw ==
  /\ \A p \in 1..Len(memlog) :
       (memlog[p].op = "add" /\ memlog[p].message.role = "user")
         => memlog[p].message.content = calls[memlog[p].by].input
  /\ \A p \in 1..Len(history) : PlainRecord(history[p])
  /\ \A i \in CallIds :
       \A p \in 1..(Len(calls[i].messages) - 1) : PlainRecord(calls[i].messages[p])

\* a turn enriched with context and one with attachments are stored, and
\* the later one was sent with the earlier one in its history
C8_Witness ==
  /\ Len(calls) >= 2
  /\ calls[1].pc = "resolved"
  /\ calls[2].pc = "resolved"
  /\ includes(calls[1].effectiveInput, REDACTED)
  /\ Len(calls[2].attachments) = 2
  /\ calls[2].messages[3].content.type = "array"
  /\ Len(history) = 4

(* C9: a play() call with invalid arguments rejects with a type error,     *)
(* without invoking the backend and without changing memory.               *)
C9_InvalidArgumentsRejected ==
  [][\A i \in CallIds :
       (InvalidCall(calls[i]) /\ calls'[i] # calls[i]) =>
         /\ calls'[i].pc \in {"resolving", "rejected"}
         /\ calls'[i].messages = <<>>
         /\ calls'[i].pc = "rejected" => calls'[i].settled.name = "TypeError"
         /\ history' = history
         /\ memlog' = memlog]_vars

\* after a successful turn, a call with a non-plain context and one with an
\* unsupported option have been rejected
C9_Witness ==
  \E i, j \in CallIds :
    /\ calls[i].pc = "rejected"
    /\ calls[i].context.type = "array"
    /\ calls[i].settled = Err("TypeError", "context")
    /\ calls[j].pc = "rejected"
    /\ calls[j].settled = Err("TypeError", "options")

(* C10 as stated: the rejection of a call with invalid arguments does not  *)
(* wait for earlier-submitted turns to settle.                             *)
C10_RejectedWithoutWaiting ==
  \A i \in CallIds :
    (InvalidCall(calls[i]) /\ \E j \in 1..(i - 1) : InFlight(calls[j]))
      => calls[i].pc = "rejected"

(* C10 as amended: validation runs inside the queued turn, so a call with  *)
(* invalid arguments stays queued while an earlier-submitted turn is       *)
(* unsettled and is rejected only after all of them have settled, before   *)
(* any memory mutation or backend call of its own.                         *)
C10_RejectionWaitsForQueue ==
  \A i \in CallIds :
    InvalidCall(calls[i]) =>
      /\ (\E j \in 1..(i - 1) : ~Settled(calls[j])) => calls[i].pc = "queued"
      /\ calls[i].pc = "rejected" => EntriesBy(i) = {} /\ calls[i].messages = <<>>

\* an invalid call submitted during a turn is rejected after that turn
C10_Witness ==
  /\ Len(calls) >= 2
  /\ Overlapped(2)
  /\ InvalidCall(calls[2])
  /\ calls[2].pc = "rejected"
  /\ Len(history) = 2

(* C11: with overlapping calls each caller's promise settles with the      *)
(* outcome of its own turn: a resolved call holds the reply the backend    *)
(* produced for that call (the reply its turn stored in memory), a         *)
(* rejected call holds its own error: the TypeError of its own invalid     *)
(* argument, or the backend error when it was the call at the backend.     *)
OwnOutcome(c) ==
  IF Truthy(box) THEN Get(c.result, "output")
  ELSE toAssistantMemoryContent(c.result, box)

C11_SettlesWithOwnOutcome ==
  \A i \in CallIds :
    /\ calls[i].pc = "resolved" =>
         /\ calls[i].result \in BackendResults
         /\ calls[i].settled = OwnOutcome(calls[i])
         /\ \E p \in EntriesBy(i) :
              memlog[p].message =
                Message("assistant", toAssistantMemoryContent(calls[i].result, box))
    /\ calls[i].pc = "rejected" =>
         /\ calls[i].result = Undefined
         /\ calls[i].settled.type = "error"
         /\ (calls[i].settled = BackendError) <=> (calls[i].messages # <<>>)
         /\ (calls[i].settled # BackendError) =>
              /\ InvalidCall(calls[i])
              /\ calls[i].settled.name = "TypeError"
              /\ (calls[i].settled.v = "input") <=> (calls[i].input.type # "string")
              /\ (calls[i].settled.v = "context") =>
                   ~IsNullish(calls[i].context) /\ ~isPlainObject(calls[i].context)

\* two overlapping calls have settled with different outcomes, the second
\* resolved with its own reply after the first
C11_Witness ==
  /\ Len(calls) >= 2
  /\ Overlapped(2)
  /\ calls[2].pc = "resolved"
  /\ calls[1].settled # calls[2].settled
  /\ calls[1].result # calls[2].result

(* C12: when every attachment resolution and every backend call settles,   *)
(* every submitted play() call is eventually admitted and eventually       *)
(* settles, also behind failing calls; a call only moves forward: queued,  *)
(* resolving, generating, settled, and a settled call stays as it is.      *)
CallAdmitted(i) == IF i <= Len(calls) THEN calls[i].pc # "queued" ELSE FALSE
CallSettled(i) == IF i <= Len(calls) THEN Settled(calls[i]) ELSE FALSE

Forward(from, to) ==
  \/ from = to
  \/ from = "queued" /\ to \in {"resolving", "rejected"}
  \/ from = "resolving" /\ to \in {"generating", "rejected"}
  \/ from = "generating" /\ to \in {"resolved", "rejected"}

C12_EveryCallSettles ==
  /\ \A i \in 1..MaxCalls : (i <= Len(calls)) ~> CallAdmitted(i)
  /\ \A i \in 1..MaxCalls : (i <= Len(calls)) ~> CallSettled(i)
  /\ [][\A i \in CallIds :
          /\ Forward(calls[i].pc, calls'[i].pc)
          /\ Settled(calls[i]) => calls'[i] = calls[i]]_vars

\* every call has settled, the last one resolved behind a call that failed
C12_Witness ==
  /\ Len(calls) = MaxCalls
  /\ \A i \in CallIds : Settled(calls[i])
  /\ calls[Len(calls) - 1].pc = "rejected"
  /\ calls[Len(calls)].pc = "resolved"

(* C13: no mutation made through the value list() returned, to the         *)
(* returned sequence or to the records in it, changes the store: what the  *)
(* store holds, and so what a later list() returns, is always the last     *)
(* records passed to add() since the last clear(), as they were passed.    *)
C13_ListedValueIsIndependent ==
  LET ins == Inserted(SinceClear(memlog))
  IN list(history) = LastN(ins, Min(Len(ins), limit))

\* the caller pushed onto the returned array and the store kept its records
C13_PushWitness ==
  /\ Len(listed) = Len(history) + 1
  /\ history # <<>>
  /\ SubSeq(listed, 1, Len(history)) = history

(* C14: after clear() list() returns the empty sequence whatever the store *)
(* held, and from then on the store holds what a fresh store of the same   *)
(* capacity holds after the same adds.                                     *)
C14_ClearResets ==
  /\ (memlog # <<>> /\ memlog[Len(memlog)].op = "clear") => list(history) = <<>>
  /\ (~NoClear(memlog)) =>
       list(history) = AddAll(<<>>, limit, Inserted(SinceClear(memlog)))

\* a store that held records was cleared and has since been filled beyond
\* its capacity
C14_Witness ==
  /\ memlog # <<>>
  /\ memlog[1].op = "add"
  /\ ~NoClear(memlog)
  /\ Len(SinceClear(memlog)) > limit
  /\ Len(history) = limit

(* C15: the message list a turn sends to the backend holds no record       *)
(* stored before the last forget(): its records before the current turn's  *)
(* are records added since that forget(), and when nothing was added since *)
(* (forget() with no turn in flight, then play()) it consists of the       *)
(* turn's own user record alone.                                           *)
SentAtCompose(i) == calls[i].pc = "resolving" /\ calls'[i].pc = "generating"

C15_ForgottenRecordsNotSent ==
  [][\A i \in CallIds :
       (SentAtCompose(i) /\ ~NoClear(memlog)) =>
         LET sent == calls'[i].messages
             since == Inserted(SinceClear(memlog))
         IN /\ Len(sent) >= 1
            /\ sent[Len(sent)].role = "user"
            /\ Len(sent) - 1 <= Len(since)
            /\ SubSeq(sent, 1, Len(sent) - 1) = LastN(since, Len(sent) - 1)
            /\ since = <<>> => Len(sent) = 1]_vars

\* records were stored, forget() was called with no turn in flight, and the
\* next play() is at the backend with its own user record alone
C15_Witness ==
  \E j \in CallIds :
    /\ calls[j].pc = "generating"
    /\ Len(calls[j].messages) = 1
    /\ calls[j].logAtSubmit >= 3
    /\ memlog[1].op = "add"
    /\ memlog[calls[j].logAtSubmit].op = "clear"
    /\ \A k \in 1..(j - 1) : Settled(calls[k])

(* C16: distinct instances share no state.  A step of one instance (play,  *)
(* its admission, composition and settling, forget) leaves every closure   *)
(* variable of the other instance as it was; the memory of an instance     *)
(* holds the records of its own resolved calls only; and a queued turn     *)
(* whose earlier turns have settled can be admitted whatever turn the      *)
(* other instance has in flight.                                           *)
OtherInFlight == \E k \in 1..Len(peer.calls) : InFlight(peer.calls[k])

SwitchStep ==
  /\ peer' = Closure
  /\ history' = peer.history
  /\ memlog' = peer.memlog
  /\ calls' = peer.calls
  /\ playQueue' = peer.playQueue

C16_InstancesShareNoState ==
  /\ [][peer' # peer => SwitchStep]_vars
  /\ [](Inserted(memlog) = RecordsOfResolved(Len(calls)))
  /\ [](\A i \in CallIds :
          /\ calls[i].prev = i - 1
          /\ (calls[i].pc = "queued" /\ \A j \in 1..(i - 1) : Settled(calls[j]))
               => CanAdmit(i))
  /\ [](playQueue = Len(calls))

\* both instances have a turn at the backend at the same time
C16_Witness ==
  /\ OtherInFlight
  /\ peer.calls[1].pc = "generating"
  /\ Len(calls) = 1
  /\ calls[1].pc = "generating"

(* C17: in the serialized context the value of every key whose lowercase   *)
(* form contains password, token, secret, apikey or api_key is exactly the *)
(* marker "[REDACTED]", at every nesting depth and inside arrays of        *)
(* objects: the text is the plain serialization of the context with those  *)
(* values replaced by the marker, no secret text appears in it, and two    *)
(* contexts that differ only in such values give the same text.            *)
RECURSIVE Scrub(_)
Scrub(value) ==
  IF value.type = "object"
  THEN [value EXCEPT !.v =
          [p \in 1..Len(value.v) |->
             <<value.v[p][1],
               IF value.v[p][1] \in SensitiveNames THEN Str(REDACTED)
               ELSE Scrub(value.v[p][2])>>]]
  ELSE IF value.type = "array"
  THEN [value EXCEPT !.v = [p \in 1..Len(value.v) |-> Scrub(value.v[p])]]
  ELSE value

C17_SensitiveValuesRedacted ==
  returned # <<>> =>
    /\ returned[1] = returned[2]
    /\ \A p \in 1..2 :
         /\ returned[p].kind = "text"
         /\ returned[p] = TruncateContext(Stringify("", Scrub(given[p]), 0, TRUE, FALSE))
         /\ includes(returned[p].text, ": " \o Quote(REDACTED))
         /\ ~includes(returned[p].text, "s3cr3t")
         /\ ~includes(returned[p].text, "hunter2")
         /\ ~includes(returned[p].text, "420")

\* two contexts with different secrets under a mixed-case key, in an object
\* of an array, have been serialized
C17_Witness ==
  /\ returned # <<>>
  /\ given[1] # given[2]
  /\ HasKey(given[1], "items")
  /\ HasKey(Get(given[1], "items").v[1], "API_KEY")
  /\ Get(Get(given[1], "items").v[1], "API_KEY") = Str("hunter2")

(* C18: the wrapped execute of every tool never throws or rejects: when    *)
(* the user's tool function throws, it resolves with                       *)
(* {error: <message>, toolName: <registered name>}, and an undefined       *)
(* result resolves as null.                                                *)
CalledOutcome == (CHOOSE p \in 1..Len(given[2]) : given[2][p][1] = given[1])

C18_ExecuteNeverRejects ==
  returned # <<>> =>
    LET outcome == given[2][CalledOutcome][2]
    IN /\ returned[1].kind = "return"
       /\ outcome.kind = "throw" =>
            /\ Keys(returned[1].value) = <<"error", "toolName">>
            /\ IsString(Get(returned[1].value, "error"))
            /\ Get(returned[1].value, "toolName") = Str(given[1])
       /\ outcome = Returned(Undefined) => returned[1].value = Null

\* the tool threw an object that has no prototype and the wrapped execute
\* has settled
C18_Witness ==
  /\ returned # <<>>
  /\ given[2][CalledOutcome][2].kind = "throw"
  /\ given[2][CalledOutcome][2].value.type = "object"
  /\ given[2][CalledOutcome][2].value.proto = "null"

(* C19: the message list passed to the backend for a turn is exactly the   *)
(* memory contents at the moment the turn is composed, after its           *)
(* attachments were resolved, in stored order and unmodified, followed by  *)
(* exactly one record of role user for the current turn; the stored        *)
(* records are not altered by composing it.                                *)
C19_SendsMemoryAtComposition ==
  [][\A i \in CallIds :
       SentAtCompose(i) =>
         LET sent == calls'[i].messages
         IN /\ Len(sent) = Len(history) + 1
            /\ SubSeq(sent, 1, Len(history)) = history
            /\ sent[Len(sent)].role = "user"
            /\ history' = history]_vars

(* C19 as stated: the records before the current turn's are the memory     *)
(* contents at the moment the turn was admitted.                           *)
C19_SendsMemoryAtAdmission ==
  [][\A i \in CallIds :
       SentAtCompose(i) =>
         LET sent == calls'[i].messages
         IN /\ Len(sent) = Len(calls[i].admitHistory) + 1
            /\ SubSeq(sent, 1, Len(sent) - 1) = calls[i].admitHistory
            /\ sent[Len(sent)].role = "user"
            /\ history' = history]_vars

\* a turn admitted over a non-empty memory is at the backend after a
\* forget() that ran while its attachments were being resolved
C19_Witness ==
  \E j \in CallIds :
    /\ calls[j].pc = "generating"
    /\ calls[j].admitHistory # <<>>
    /\ Len(memlog) > calls[j].logAtAdmit
    /\ memlog[calls[j].logAtAdmit + 1].op = "clear"
    /\ Len(calls[j].messages) = 1

(* C20: when a turn has at least one resolved attachment, the content of   *)
(* the current-turn user record sent to the backend is the multi-part list *)
(* [{type: text, text: effective input}, ...attachment payloads], whether  *)
(* or not context or a schema hint enriched the text; with no attachments  *)
(* it is the effective-input text alone.                                   *)
EffectiveInputOf(c) ==
  buildEffectiveInput(c.input.v, serializeContext(c.context).text, box)

TextPart(text) == Obj(<<<<"type", Str("text")>>, <<"text", Str(text)>>>>)

HoldsAt(context, key, value) == \E n \in 1..4 : context = ContextsWith(key, value)[n]

C21_SerializeContextNeverRaises ==
  returned # <<>> =>
    /\ returned[1].kind = "text"
    /\ \A key \in PlainNames \ SensitiveNames :
         /\ HoldsAt(given[1], key, [type |-> "cycle", v |-> ""]) =>
              includes(returned[1].text, Quote(key) \o ": " \o Quote("[Circular]"))
         /\ HoldsAt(given[1], key, [type |-> "bigint", v |-> "1"]) =>
              includes(returned[1].text, Quote(key) \o ": " \o Quote("1"))
    /\ \A key \in PlainNames :
         HoldsAt(given[1], key, Obj(<<<<"toJSON", Fn(Raises("Error"))>>>>)) =>
           returned[1].text = ""
    /\ (HasToJSON(given[1]) /\ ToJSON(given[1]).type \in {"raise", "undefined"}) =>
         returned[1].text = ""

\* serializeContext was called on a context that holds a BigInt under the
\* key id of an object in an array
C21_Witness ==
  /\ returned # <<>>
  /\ given[1] = ContextsWith("id", [type |-> "bigint", v |-> "1"])[3]

(* C22: wrapping a primitive descriptor node in at most 20 transparent     *)
(* wrappers of the kinds unwrapZodSchema follows, in any order and in      *)
(* either encoding, renders the same signature as the primitive alone.     *)
Described == returned # <<>> /\ returned[1] = "describeZodSchema"
Unwrapped == returned # <<>> /\ returned[1] = "unwrapZodSchema"

RECURSIVE Wrappers(_)
\* the number of wrappers around the primitive of a wrapped pair
Wrappers(node) ==
  IF node \in Primitives THEN 0
  ELSE LET def == Coalesce(OptGet(node, "_def"), OptGet(OptGet(node, "_zod"), "def"))
       IN 1 + Wrappers(def.v[2][2])

PrimitiveSignatures == {"string", "number", "boolean", "null", "any"}

C22_WrappersAreTransparent ==
  (Described /\ given \in WrappedPairs /\ Wrappers(given[1]) <= UNWRAP_GUARD) =>
    /\ returned[2] = returned[3]
    /\ returned[2].kind = "text"
    /\ returned[2].text \in PrimitiveSignatures

(* C22 as stated: any number of wrappers.                                  *)
C22_AnyNumberOfWrappers ==
  (Described /\ given \in WrappedPairs) =>
    /\ returned[2] = returned[3]
    /\ returned[2].kind = "text"
    /\ returned[2].text \in PrimitiveSignatures

\* a number node wrapped in 20 wrappers of every kind has been described
C22_Witness ==
  /\ Described
  /\ given = <<WrapAll(LongChain(UNWRAP_GUARD), V4("number", <<>>)), V4("number", <<>>)>>

(* C23: unwrapping terminates after at most 20 iterations for every        *)
(* descriptor, including a malformed wrapper whose inner node is missing   *)
(* or refers back to itself, and rendering proceeds with the node reached: *)
(* a primitive under at most 20 wrappers is reached and rendered, a        *)
(* malformed wrapper and the 21st wrapper of a chain render as unknown.    *)
\* the malformed wrapper of a malformed input
MalformedOf(input) ==
  CHOOSE node \in MalformedWrappers :
    input[1] = node \/ \E k \in 1..Len(WrapperKinds) : input[1] = Wrap(WrapperKinds[k], node)

C23_UnwrappingIsBounded ==
  /\ Unwrapped =>
       /\ \A p \in 2..Len(returned) :
            returned[p].guard \in 0..UNWRAP_GUARD
       /\ given \in MalformedInputs =>
            /\ returned[2].guard = UNWRAP_GUARD
            /\ returned[2].node = MalformedOf(given)
       /\ given \in WrappedPairs =>
            /\ returned[2].guard = Min(Wrappers(given[1]) + 1, UNWRAP_GUARD)
            /\ Wrappers(given[1]) <= UNWRAP_GUARD => returned[2].node = given[2]
            /\ Wrappers(given[1]) > UNWRAP_GUARD => Wrappers(returned[2].node) = 1
  /\ Described =>
       /\ given \in MalformedInputs => returned[2] = Text("unknown")
       /\ (given \in WrappedPairs /\ Wrappers(given[1]) > UNWRAP_GUARD) =>
            returned[2] = Text("unknown")

\* a wrapper whose inner node is the wrapper itself has been unwrapped
C23_Witness ==
  /\ Unwrapped
  /\ given = <<V3("ZodOptional", <<<<"innerType", SelfReference>>>>)>>
  /\ returned[2].guard = UNWRAP_GUARD

(* C24: rendering an object node lists its fields in lexicographic key     *)
(* order: two object descriptors with the same fields given in different   *)
(* orders render to the identical signature string, at every nesting       *)
(* level.                                                                  *)
\* the signature of the object of the first MaxFields fields
FieldsInOrder ==
  "{ " \o JoinTexts([p \in 1..MaxFields |->
                       Quote(FieldNames[p]) \o ": " \o FieldSignatures[p]], ", ") \o " }"

C24_FieldsInKeyOrder ==
  (Described /\ given \in ObjectPairs) =>
    /\ returned[2] = returned[3]
    /\ returned[2].kind = "text"
    /\ returned[2].text \in
         { FieldsInOrder,
           "{ " \o Quote("Alpha") \o ": string, " \o Quote("inner") \o ": "
                \o FieldsInOrder \o " }",
           FieldsInOrder \o "[]" }

\* two objects that are fields of an object, with their own fields in
\* different orders and in a different place among the fields of the outer
\* object, have been described
C24_Witness ==
  /\ Described
  /\ \E first, second \in Orders :
       /\ first[1] = 1
       /\ second[1] = MaxFields
       /\ given = <<Placed(2, 2, first), Placed(2, 2, second)>>

(* C25: schema description is total on nodes of no known kind: for a       *)
(* missing node, a node whose kind tag is not one of the known kinds, or a *)
(* union whose alternatives are not a list, alone, wrapped or nested, the  *)
(* renderer returns the literal word unknown in its place and never        *)
(* raises.                                                                 *)
C25_UnknownKindsRenderUnknown ==
  (Described /\ given \in UnknownInputs) =>
    /\ returned[2].kind = "text"
    /\ \/ returned[2].text = "unknown"
       \/ /\ DefField(given[1], "typeName") = Str("ZodArray")
          /\ returned[2].text = "unknown[]"
       \/ /\ NodeType(given[1]) = Str("union")
          /\ DefField(given[1], "options").type = "array"
          /\ returned[2].text = "number | unknown"

\* a union whose options are an object, not an array, has been described
\* as the element of an array
C25_Witness ==
  /\ Described
  /\ given = <<V3("ZodArray",
                  <<<<"element",
                      V3("ZodUnion",
                         <<<<"options", Obj(<<<<"0", V3("ZodString", <<>>)>>>>)>>>>)>>>>)>>
  /\ returned[2] = Text("unknown[]")

----------------------------------------------------------------------------
(* C26: resolving an attachment never rejects.  When its source is text    *)
(* that is a candidate local path, stat reports a regular file and the     *)
(* read succeeds, the payload carries the bytes read (and a file           *)
(* attachment without a filename gets the base name of the path); when     *)
(* stat or the read fails, or the path is not a regular file, the payload  *)
(* is the attachment unchanged, with its original text as source.          *)

\* the field of an attachment that holds its source
SourceField(attachment) ==
  IF Get(attachment, "type") = Str("image") THEN "image" ELSE "data"

\* payload is attachment with the bytes read from path in place of the source
CarriesBytes(payload, attachment, path) ==
  /\ Get(payload, SourceField(attachment)) = Bytes(path)
  /\ \A key \in Range(Keys(attachment)) \ {SourceField(attachment)} :
       Get(payload, key) = Get(attachment, key)
  /\ IF Get(attachment, "type") = Str("file") /\ ~HasKey(attachment, "filename")
     THEN /\ Get(payload, "filename") = Str(basename(path))
          /\ Range(Keys(payload)) = Range(Keys(attachment)) \cup {"filename"}
     ELSE Range(Keys(payload)) = Range(Keys(attachment))

C26_ResolutionNeverRejects ==
  returned # <<>> =>
    \A p \in 1..Len(given) :
      LET slot == returned.slots[p]
          source == SourceOf(given[p])
      IN /\ slot.at \in {"stat", "read", "fulfilled"}
         /\ (slot.at = "fulfilled" /\ source.type = "string"
               /\ toCandidateLocalPath(source.v) # "") =>
              IF slot.fs = "file"
              THEN CarriesBytes(slot.value, given[p], trim(source.v))
              ELSE /\ slot.fs \in {"directory", "stat-throws", "read-throws"}
                   /\ slot.value = given[p]

\* a file attachment without a filename was read and got the base name of
\* its path, and the read of an image whose path came with surrounding
\* blanks failed
C26_Witness ==
  /\ returned # <<>>
  /\ Len(given) = 2
  /\ Get(given[1], "type") = Str("file")
  /\ ~HasKey(given[1], "filename")
  /\ returned.slots[1].at = "fulfilled"
  /\ returned.slots[1].fs = "file"
  /\ Get(returned.slots[1].value, "filename") = Str("notes.txt")
  /\ SourceOf(given[2]) = Str(" ./img/dog.png\n")
  /\ returned.slots[2].at = "fulfilled"
  /\ returned.slots[2].fs = "read-throws"

----------------------------------------------------------------------------
(* C27: the list of resolved payloads has the length and the order of the  *)
(* list of attachments, whatever order the stat and read operations of     *)
(* the attachments complete in, and the turn is composed only after every  *)
(* attachment of the batch has been resolved.                              *)

\* payload is what attachment resolves to: the attachment itself, or the
\* attachment with the bytes of its own path
PayloadOf(payload, attachment) ==
  \/ payload = attachment
  \/ /\ SourceOf(attachment).type = "string"
     /\ CarriesBytes(payload, attachment, trim(SourceOf(attachment).v))

C27_PayloadsKeepInputOrder ==
  returned # <<>> =>
    /\ returned.at \in {"resolved", "composed"} =>
         /\ Len(returned.payloads) = Len(given)
         /\ AllFulfilled(returned.slots)
         /\ \A p \in 1..Len(given) : PayloadOf(returned.payloads[p], given[p])
    /\ returned.content # Undefined =>
         /\ returned.at = "composed"
         /\ returned.content.type = "array"
         /\ Len(returned.content.v) = 1 + Len(given)
         /\ SubSeq(returned.content.v, 2, 1 + Len(given)) = returned.payloads

\* a turn was composed from two different attachments of which the second
\* was resolved first, one of them read from disk
C27_Witness ==
  /\ returned # <<>>
  /\ returned.at = "composed"
  /\ returned.order = <<2, 1>>
  /\ given[1] # given[2]
  /\ \E p \in 1..2 : returned.slots[p].fs = "file"

----------------------------------------------------------------------------
(* C28: redaction is idempotent within the size bound.  When the text      *)
(* serialized for a context is that of a JSON object, parsing the          *)
(* untruncated text and serializing the parsed object again yields the     *)
(* same text, every redaction marker unchanged.                            *)

C28_RoundTripOfObjectText ==
  (Len(returned) = 2 /\ CharAt(returned[1].text, 1) = "{") => returned[2] = returned[1]

\* as stated, for every serialized text
C28_RoundTripOfAnyText ==
  Len(returned) = 2 => returned[2] = returned[1]

\* a text with a redaction marker below the top level went the round trip
C28_Witness ==
  /\ Len(returned) = 2
  /\ CharAt(returned[1].text, 1) = "{"
  /\ includes(returned[1].text, "\"n\": 1.5")
  /\ includes(returned[1].text, "\"apiKey\": " \o Quote(REDACTED))

----------------------------------------------------------------------------
(* C29: on an instance of capacity 10 whose turns go through the play      *)
(* queue, wherever another play or forget can run, memory has even length  *)
(* and its records alternate user, assistant, starting with user: after    *)
(* any successful plays, failed plays and forgets, and after the oldest    *)
(* records have been evicted.                                              *)

Alternates(h) ==
  /\ Len(h) % 2 = 0
  /\ \A p \in 1..Len(h) : h[p].role = IF p % 2 = 1 THEN "user" ELSE "assistant"

C29_MemoryAlternates == Alternates(history)

\* a turn has succeeded on a full store, which evicted the oldest turn, and
\* another turn has failed
C29_Witness ==
  /\ Len(history) = MEMORY_LIMIT
  /\ history[1] = Message("user", Str("earlier-2"))
  /\ \E i, j \in 1..Len(calls) :
       /\ calls[i].pc = "resolved"
       /\ history[MEMORY_LIMIT - 1] = Message("user", calls[i].input)
       /\ calls[j].pc = "rejected"

----------------------------------------------------------------------------
(* C30: forget() does not go through the play queue.  Called while a turn  *)
(* is awaiting the backend it clears memory at once, and when that turn    *)
(* then succeeds it still appends its two records: once it has settled,    *)
(* memory holds exactly the [user, assistant] pair of that turn, although  *)
(* the turn was submitted before the forget().                             *)

\* a step of forget() while call i awaits the backend
ForgetsDuring(i) ==
  /\ calls[i].pc = "generating"
  /\ memlog' = Append(memlog, LogClear)

\* call i, composed from a memory that held records, succeeds on a memory
\* that has been cleared since
ResolvesAfterForget(i) ==
  /\ calls[i].pc = "generating"
  /\ calls'[i].pc = "resolved"
  /\ listed # <<>>
  /\ history = <<>>

C30_ForgetBypassesQueue ==
  [][\A i \in 1..Len(calls) :
       /\ ForgetsDuring(i) => (history' = <<>> /\ calls' = calls)
       /\ ResolvesAfterForget(i) =>
            history' = <<Message("user", calls[i].input),
                         Message("assistant",
                                 toAssistantMemoryContent(calls'[i].result, box))>>]_vars

\* the only turn was composed from earlier records, memory was cleared
\* before it succeeded, and its pair is all that memory holds
C30_Witness ==
  /\ Len(calls) = 1
  /\ calls[1].pc = "resolved"
  /\ Len(calls[1].messages) > 1
  /\ Len(memlog) = 3
  /\ memlog[1] = LogClear
  /\ history = <<Message("user", calls[1].input), memlog[3].message>>
  /\ memlog[3].message.role = "assistant"

====
